---- MODULE Spec2Model ----
(***************************************************************************)
(* A model of pyeep: the frame-delay event queue (pyeep/deltalist.py),    *)
(* the App / Hub / Component message bus (pyeep/app, pyeep/component),     *)
(* the messages (pyeep/messages), the synthesizer (pyeep/midisynth.py)     *)
(* the MIDI player (pyeep/jackmidi.py) and the bridge to a child process   *)
(* (pyeep/component/subprocess.py).                                        *)
(*                                                                         *)
(* SpecDL       : DeltaList.add_event and clock_tick on one queue.         *)
(* SpecBus      : an App with an AIOHub and a GtkHub, threads, queues      *)
(*                and the messages components send.                        *)
(* SpecAffinity : components added and removed by component code.          *)
(* SpecDirect   : hub-restricted methods called from any thread.           *)
(* SpecAdd      : App.add_component, with the AIOHub gone or present.      *)
(* SpecRemove   : removals by component code and by returning run().       *)
(* SpecAddAgain : Hub.add_component of a component already started.        *)
(* SpecRoute    : broadcast and addressed messages.                        *)
(* SpecStop     : KeyboardInterrupt, Shutdown, and the hubs' removal.      *)
(* SpecCleanup  : shutdown of an AIOHub whose cleanup() hooks raise.       *)
(* SpecSend     : Component.send stamping and queueing a message.          *)
(* SpecJson     : a message serialized and instantiated again.             *)
(* SpecEnv      : one Envelope, released and asked for windows.            *)
(* SpecNote     : an Instrument with Saw notes, events and windows.        *)
(* SpecRt       : MidiPlayer.play against JACK's realtime callback.        *)
(* SpecPass     : one hub's dispatch passes, one receive call at a time.   *)
(* SpecLeave    : an AIOHub leaving its loop while components are added.   *)
(* SpecActive   : SimpleActiveComponent.set_active from any thread.        *)
(* SpecBridge   : TopComponent / BottomComponent and the lines of a peer.  *)
(* SpecKill     : TopComponent's Shutdown with a running child.            *)
(***************************************************************************)
EXTENDS Integers, Sequences, FiniteSets, TLC

\* ------------------------------------------------------------------------
\* Bounds of the model
\* ------------------------------------------------------------------------

\* how many events are ever added to the DeltaList
MaxEvents == 3
\* largest frame_delay an event is added with
MaxDelay == 3
\* largest frame count passed to clock_tick
MaxFrames == 3
\* how many messages components send on the bus
MaxMsgs == 2
\* how many times component code asks a hub to remove a component
MaxRemoves == 1
\* how many times code calls a hub-restricted method directly
MaxCalls == 1
\* how many times code hands an already made component to its hub again
MaxAddAgain == 1
\* how many KeyboardInterrupts reach the main thread
MaxInterrupts == 1
\* the interrupt of an application that is interrupted once
OneInterrupt == 1

\* ------------------------------------------------------------------------
\* DeltaList state
\* ------------------------------------------------------------------------
VARIABLES
    events,     \* DeltaList.events: the deque, head first, of Event records
    nextId,     \* identity of the next Event object to be constructed
    sched,      \* ghost: queued event id -> frames from now at which it is due
    lastOp      \* ghost: the last operation, its arguments, pre-state and result

dlVars == <<events, nextId, sched, lastOp>>

\* ------------------------------------------------------------------------
\* Message bus state
\* ------------------------------------------------------------------------
VARIABLES
    hubs,            \* App.hubs: the registered hub tags, in insertion order
    command_queue,   \* App.command_queue, oldest first
    components,      \* Hub.components of each hub: names in dict order
    loopSet,         \* AIOHub.loop is not None
    pre_loop_queue,  \* AIOHub.pre_loop_queue, oldest first
    loop_ready,      \* callbacks handed to loop.call_soon_threadsafe
    tasks,           \* AIOHub.tasks: the running tasks, each with its component
    idle_queue,      \* callbacks handed to GLib.idle_add
    pc,              \* where each thread stands
    appMsg,          \* _app_thread_send: the message being fanned out
    appIdx,          \* _app_thread_send: position in App.hubs
    rih,             \* per thread: the run_in_hub call it is in the middle of
    made,            \* components constructed by App.add_component
    nextMsg,         \* identity of the next Message object
    recvLog,         \* per hub: the Component.receive calls, in order
    regOrder,        \* ghost: components in the order their registration ran
    affinityFailures, \* ghost: check_hub failures on the framework's paths
    owed,            \* ghost: messages given to App.send while the AIOHub
                     \* runs that the AIOHub has not dispatched yet; empty
                     \* once aio_main is past its loop
    dispatched,      \* ghost: per hub, the messages _hub_thread_receive saw
    cleanupLog,      \* ghost: the Component.cleanup calls, in order
    quota,           \* environment: messages component code may still send
    removeQuota,     \* environment: removals component code may still ask for
    lastCall,        \* ghost: the last direct call of a hub-restricted method
    noHub,           \* ghost: classes App.add_component refused for want of a hub
    removals,        \* ghost: what each _hub_thread_remove_component call found
    faulty,          \* environment: the components whose cleanup() raises
    runMode,         \* environment: when a component's run() returns
    addQuota,        \* environment: repeated Hub.add_component calls left
    intQuota,        \* environment: KeyboardInterrupts still to come
    halting          \* ghost: a Shutdown has been given to App.send

busVars == <<hubs, command_queue, components, loopSet, pre_loop_queue,
             loop_ready, tasks, idle_queue, pc, appMsg, appIdx, rih, made,
             nextMsg, recvLog, regOrder, affinityFailures, owed, dispatched,
             cleanupLog, quota, removeQuota, lastCall, noHub, removals,
             faulty, runMode, addQuota, intQuota, halting>>

\* ------------------------------------------------------------------------
\* Component.send state
\* ------------------------------------------------------------------------
VARIABLES
    wallClock,  \* what time.time() returns
    appQueue,   \* the messages App.send has put on App.command_queue
    lastSend    \* ghost: the last Component.send call, its arguments and effect

sendVars == <<wallClock, appQueue, lastSend>>

\* ------------------------------------------------------------------------
\* Message serialization state
\* ------------------------------------------------------------------------
VARIABLES
    jsPc,     \* how far the round trip has got
    jsMsg,    \* the message that is serialized
    jsDict,   \* the dict: as_jsonable's result, then what jsonable_class left
    jsClass,  \* what Jsonable.jsonable_class returned
    jsOut     \* the message instantiated from the dict, or the exception

jsonVars == <<jsPc, jsMsg, jsDict, jsClass, jsOut>>

\* ------------------------------------------------------------------------
\* Envelope state
\* ------------------------------------------------------------------------
VARIABLES
    envelope,  \* an Envelope object
    envCall    \* ghost: the last Envelope.generate call and what it returned

adsrVars == <<envelope, envCall>>

\* ------------------------------------------------------------------------
\* Instrument and Note state
\* ------------------------------------------------------------------------
VARIABLES
    instrument,  \* an Instrument object: its notes dict
    frameTime,   \* the frame the next window handed to generate starts at
    addCount,    \* how many events were added to the instrument
    lastTime,    \* the time of the latest event added
    lastGen      \* ghost: the last Instrument.generate call, note by note

noteVars == <<instrument, frameTime, addCount, lastTime, lastGen>>

\* ------------------------------------------------------------------------
\* MidiPlayer threads
\* ------------------------------------------------------------------------
VARIABLES
    events_mutex,  \* MidiPlayer.events_mutex: the thread holding it, or None
    rtPc,          \* where each thread of the player is
    rtCycles,      \* how many process cycles JACK has started
    rtClock,       \* frames the queue's clock has been advanced by
    dueAt,         \* event id -> frame at which it is due
    rtCall,        \* the running on_process call: frames, local events
    midiPort       \* every write_midi_event so far

lockVars == <<events_mutex, rtPc, rtCycles, rtClock, dueAt, rtCall, midiPort>>

\* ------------------------------------------------------------------------
\* One hub's dispatch passes
\* ------------------------------------------------------------------------
VARIABLES
    hubTable,    \* Hub.components of the hub: names in dict order
    hubCleaned,  \* the components removed: cleanup() run, deleted from the table
    hubPending,  \* the callables marshalled to the hub, oldest first
    pass,        \* the running _dispatch_to_components call
    passLog,     \* ghost: every Component.receive call of the hub
    passSent     \* how many messages were marshalled to the hub

passVars == <<hubTable, hubCleaned, hubPending, pass, passLog, passSent>>

\* ------------------------------------------------------------------------
\* SimpleActiveComponent state
\* ------------------------------------------------------------------------
VARIABLES
    active,      \* SimpleActiveComponent.active
    setQueue,    \* the set_active calls marshalled to the component's hub
    stateMsgs,   \* the messages the component has sent, oldest first
    setLog,      \* ghost: every set_active body run, with the state around it
    setCalls     \* how many set_active calls were made

activeVars == <<active, setQueue, stateMsgs, setLog, setCalls>>

\* ------------------------------------------------------------------------
\* TopComponent / BottomComponent: the bridge to the remote process
\* ------------------------------------------------------------------------
VARIABLES
    brSide,     \* which class the bridge is: "top" or "bottom"
    sockIn,     \* the lines the peer has written and the bridge has not read
    sockOut,    \* the lines the bridge has written to the peer
    peerSent,   \* how many lines the peer has written
    brQueue,    \* the bridge's message_queue
    busSent,    \* the messages the bridge has sent on the bus
    busIdx,     \* how many of them the bus has delivered back to the bridge
    localSent,  \* how many messages other components have sent
    brReader,   \* the _read_messages task: not started, reading, ended
    brRun,      \* the run() coroutine: running or returned
    brSeen,     \* ghost: the lines _read_messages has read
    brLogged    \* ghost: the lines that were logged as errors

bridgeVars == <<brSide, sockIn, sockOut, peerSent, brQueue, busSent, busIdx,
                localSent, brReader, brRun, brSeen, brLogged>>

\* ------------------------------------------------------------------------
\* TopComponent: the child process
\* ------------------------------------------------------------------------
VARIABLES
    proc,         \* TopComponent.proc: None or the Process object
    child,        \* the child process itself: unstarted, running, exited
    stubborn,     \* the child ignores SIGTERM
    returncode,   \* proc.returncode as asyncio knows it: None or set
    attempt,      \* _killer's attempt
    signals,      \* the signals sent to the child, oldest first
    topShutdown,  \* a Shutdown is on the component's message_queue
    topPc         \* where run() is

killVars == <<proc, child, stubborn, returncode, attempt, signals,
              topShutdown, topPc>>

auxVars == <<sendVars, jsonVars, adsrVars, noteVars, lockVars, passVars, activeVars, bridgeVars, killVars>>

\* everything but the state of one part
exceptSend == <<dlVars, busVars, jsonVars, adsrVars, noteVars, lockVars, passVars, activeVars, bridgeVars, killVars>>
exceptJson == <<dlVars, busVars, sendVars, adsrVars, noteVars, lockVars, passVars, activeVars, bridgeVars, killVars>>
exceptAdsr == <<dlVars, busVars, sendVars, jsonVars, noteVars, lockVars, passVars, activeVars, bridgeVars, killVars>>
exceptNote == <<dlVars, busVars, sendVars, jsonVars, adsrVars, lockVars, passVars, activeVars, bridgeVars, killVars>>
exceptLock == <<busVars, sendVars, jsonVars, adsrVars, noteVars, passVars, activeVars, bridgeVars, killVars>>
exceptKill == <<dlVars, busVars, sendVars, jsonVars, adsrVars, noteVars, lockVars, passVars, activeVars, bridgeVars>>
exceptBridge == <<dlVars, busVars, sendVars, jsonVars, adsrVars, noteVars, lockVars, passVars, activeVars, killVars>>
exceptActive == <<dlVars, busVars, sendVars, jsonVars, adsrVars, noteVars, lockVars, passVars, bridgeVars, killVars>>
exceptPass == <<dlVars, busVars, sendVars, jsonVars, adsrVars, noteVars, lockVars, activeVars, bridgeVars, killVars>>

vars == <<dlVars, busVars, auxVars>>

\* no Component.send call has been made
NoSend == [n |-> 0, c |-> "none", msg |-> <<>>, now |-> 0, before |-> <<>>]
SendIdle == wallClock = 1 /\ appQueue = <<>> /\ lastSend = NoSend

\* no message is being serialized
JsonIdle ==
    /\ jsPc = "idle" /\ jsMsg = <<>> /\ jsDict = <<>>
    /\ jsClass = "-" /\ jsOut = <<>>

\* no Envelope has been made
AdsrIdle == envelope = <<>> /\ envCall = <<>>

\* no Instrument has been made
NoteIdle ==
    /\ instrument = <<>> /\ frameTime = 0 /\ addCount = 0
    /\ lastTime = 0 /\ lastGen = <<>>

\* no MidiPlayer thread runs
NoProcess == [frames |-> 0, events |-> <<>>]
LockIdle ==
    /\ events_mutex = "none" /\ rtPc = <<>> /\ rtCycles = 0
    /\ rtClock = 0 /\ dueAt = <<>> /\ rtCall = NoProcess /\ midiPort = <<>>

\* no dispatch pass runs, no hub is watched component by component
NoPass == [msg |-> <<>>, list |-> <<>>, idx |-> 0, added |-> {}]
PassIdle ==
    /\ hubTable = <<>> /\ hubCleaned = {} /\ hubPending = <<>>
    /\ pass = NoPass /\ passLog = <<>> /\ passSent = 0

\* no SimpleActiveComponent has been made
ActiveIdle ==
    /\ active = FALSE /\ setQueue = <<>> /\ stateMsgs = <<>>
    /\ setLog = <<>> /\ setCalls = 0

\* no bridge component has been made
BridgeIdle ==
    /\ brSide = "none" /\ sockIn = <<>> /\ sockOut = <<>> /\ peerSent = 0
    /\ brQueue = <<>> /\ busSent = <<>> /\ busIdx = 0 /\ localSent = 0
    /\ brReader = "none" /\ brRun = "none" /\ brSeen = <<>> /\ brLogged = <<>>

\* no TopComponent runs a child
KillIdle ==
    /\ proc = "None" /\ child = "unstarted" /\ stubborn = FALSE
    /\ returncode = "None" /\ attempt = 0 /\ signals = <<>>
    /\ topShutdown = FALSE /\ topPc = "none"

\* the parts of the model a specification leaves alone: all of them, or all
\* but the one it is about
AuxIdleBut(part) ==
    /\ IF part = "send" THEN TRUE ELSE SendIdle
    /\ IF part = "json" THEN TRUE ELSE JsonIdle
    /\ IF part = "adsr" THEN TRUE ELSE AdsrIdle
    /\ IF part = "note" THEN TRUE ELSE NoteIdle
    /\ IF part = "lock" THEN TRUE ELSE LockIdle
    /\ IF part = "pass" THEN TRUE ELSE PassIdle
    /\ IF part = "active" THEN TRUE ELSE ActiveIdle
    /\ IF part = "bridge" THEN TRUE ELSE BridgeIdle
    /\ IF part = "kill" THEN TRUE ELSE KillIdle
AuxIdle == AuxIdleBut("none")

\* An Event object: its identity and its mutable frame_delay field
Event(id, frame_delay) == [id |-> id, frame_delay |-> frame_delay]

\* insert_index = None
NoIndex == 0

\* deltalist.py line 36: the test that stops the scan of add_event
EarlierOrSame(event, evt) == event.frame_delay <= evt.frame_delay
Earlier(event, evt) == event.frame_delay < evt.frame_delay

\* deltalist.py line 37: the event after the insertion point gives up the
\* delay now carried by the inserted event
ShiftNextForgotten(evt, event) == evt
ShiftNext(evt, event) == [evt EXCEPT !.frame_delay = @ - event.frame_delay]

\* deltalist.py line 41: the new event's delay becomes relative to evt
PassForgotten(event, evt) == event
Pass(event, evt) == [event EXCEPT !.frame_delay = @ - evt.frame_delay]

\* deltalist.py lines 34-41: the for loop, from (1-based) position idx
RECURSIVE AddScan(_, _, _)
AddScan(evs, event, idx) ==
    IF idx > Len(evs)
    THEN [events |-> evs, event |-> event, insert_index |-> NoIndex]
    ELSE IF Earlier(event, evs[idx])
         THEN [events |-> [evs EXCEPT ![idx] = ShiftNext(evs[idx], event)],
               event |-> event, insert_index |-> idx]
         ELSE AddScan(evs, Pass(event, evs[idx]), idx + 1)

\* deque.insert(idx, x): x ends up before the element at (1-based) idx
DequeInsert(evs, idx, x) ==
    SubSeq(evs, 1, idx - 1) \o <<x>> \o SubSeq(evs, idx, Len(evs))

\* DeltaList.add_event: the queue after the call
add_event(evs, event) ==
    IF evs = <<>>
    THEN <<event>>
    ELSE LET r == AddScan(evs, event, 1)
         IN  CASE r.insert_index = NoIndex -> Append(r.events, r.event)
               [] r.insert_index = 1 -> <<r.event>> \o r.events
               [] OTHER -> DequeInsert(r.events, r.insert_index, r.event)

\* deltalist.py line 59: the head event happens within the tick
DueInclusive(evt, frames) == evt.frame_delay <= frames
Due(evt, frames) == evt.frame_delay < frames

\* deltalist.py lines 62-63: a popped event's delay is made relative to the
\* start of the tick
RebaseForgotten(evt, res) == evt
Rebase(evt, res) ==
    IF res # <<>>
    THEN [evt EXCEPT !.frame_delay = @ + res[Len(res)].frame_delay]
    ELSE evt

\* deltalist.py lines 65-66: the new head absorbs what is left of the tick
AdvanceHeadForgotten(evs, frames) == evs
AdvanceHead(evs, frames) ==
    IF evs # <<>>
    THEN [evs EXCEPT ![1].frame_delay = @ - frames]
    ELSE evs

\* deltalist.py lines 58-67: the while loop and what follows it
RECURSIVE TickLoop(_, _, _)
TickLoop(evs, frames, res) ==
    IF evs # <<>> /\ Due(Head(evs), frames)
    THEN LET evt == Head(evs)
         IN  TickLoop(Tail(evs), frames - evt.frame_delay,
                      Append(res, Rebase(evt, res)))
    ELSE [events |-> AdvanceHead(evs, frames), res |-> res]

\* DeltaList.clock_tick: the queue after the call and the returned list
clock_tick(evs, frames) == TickLoop(evs, frames, <<>>)

NoOp == [op |-> "init", id |-> 0, n |-> 0, before |-> <<>>,
         schedBefore |-> <<>>, res |-> <<>>]

DLInit ==
    /\ events = <<>>
    /\ nextId = 1
    /\ sched = <<>>
    /\ lastOp = NoOp

\* a caller constructs Event(frame_delay=d) and passes it to add_event
DLAdd(d) ==
    /\ nextId <= MaxEvents
    /\ LET event == Event(nextId, d)
       IN  /\ events' = add_event(events, event)
           /\ sched' = [i \in DOMAIN sched \cup {nextId} |->
                           IF i = nextId THEN d ELSE sched[i]]
           /\ lastOp' = [op |-> "add", id |-> nextId, n |-> d,
                         before |-> events, schedBefore |-> sched,
                         res |-> <<>>]
    /\ nextId' = nextId + 1
    /\ UNCHANGED <<busVars, auxVars>>

\* a caller calls clock_tick(frames)
DLTick(frames) ==
    LET r == clock_tick(events, frames)
    IN  /\ events' = r.events
        /\ sched' = [i \in {j \in DOMAIN sched : sched[j] >= frames} |->
                        sched[i] - frames]
        /\ lastOp' = [op |-> "tick", id |-> 0, n |-> frames,
                      before |-> events, schedBefore |-> sched,
                      res |-> r.res]
        /\ UNCHANGED nextId
        /\ UNCHANGED <<busVars, auxVars>>

\* ------------------------------------------------------------------------
\* Message bus: hubs, threads, components, messages
\* ------------------------------------------------------------------------

\* Hub.HUB of AIOHub and of GtkHub; each hub's thread carries its tag as name
HubTags == {"aio", "gtk"}

\* the thread running App.main, and the hubs' threads
Threads == {"main", "aio", "gtk"}

\* the components of the application and the HUB their class declares
Comps == {"a", "b1", "b2"}
HubOf(c) == IF c = "a" THEN "gtk" ELSE "aio"

\* the application constructs its components in this order
CompOrder == <<"a", "b1", "b2">>

\* the components whose code sends messages of its own
Senders == {"a"}

None == "none"

\* Message(src, dst) and NewComponent(src): id tells Message objects apart
Msg(kind, id, src, dst) == [kind |-> kind, id |-> id, src |-> src, dst |-> dst]
NoMsg == Msg("none", 0, None, None)

\* how a message shows in the logs
Key(msg) == [kind |-> msg.kind, id |-> msg.id, src |-> msg.src, dst |-> msg.dst]

\* one Component.receive call: the component and the message
Received(c, msg) == [c |-> c, m |-> Key(msg)]

\* functools.partial(f, ...) handed to a hub: f is "receive" (with msg),
\* "add" or "remove" (with the component c)
Callable(f, c, msg) == [f |-> f, c |-> c, msg |-> msg]
NoCall == [call |-> Callable("none", None, NoMsg), branch |-> "none"]

\* commands on App.command_queue
SendCmd(msg) == [op |-> "send", msg |-> msg, hub |-> None]
RemoveHubCmd(h) == [op |-> "remove_hub", msg |-> NoMsg, hub |-> h]

Range(seq) == {seq[i] : i \in 1..Len(seq)}

\* App.add_component: self.hubs.get(component_cls.HUB)
hubs_get_unchecked(hs, tag) == tag
hubs_get(hs, tag) == IF tag \in Range(hs) THEN tag ELSE None

\* AIOHub._running_in_hub / GtkHub._running_in_hub:
\* threading.current_thread() == self.thread
running_in_hub(t, h) == t = h

\* check_hub: the wrapped body runs only when the test passes
check_hub_unchecked(t, h) == TRUE
check_hub(t, h) == running_in_hub(t, h)

\* AIOHub.run_in_hub: which of its three branches thread t takes
AIOHub_run_in_hub_no_thread_test(t, loopIsSet) ==
    IF ~loopIsSet THEN "pre" ELSE "now"
AIOHub_run_in_hub(t, loopIsSet) ==
    IF ~loopIsSet THEN "pre"
    ELSE IF running_in_hub(t, "aio") THEN "now"
    ELSE "soon"

\* GtkHub.run_in_hub: which of its two branches thread t takes
GtkHub_run_in_hub(t) ==
    IF running_in_hub(t, "gtk") THEN "now" ELSE "idle"

\* SimpleQueue.put / SimpleQueue.get, loop.call_soon_threadsafe, GLib.idle_add:
\* first in, first out
QueuePutFront(q, x) == <<x>> \o q
QueuePut(q, x) == Append(q, x)

\* the state only a hub's own context may touch, and the ghosts kept with it
HubState == [components |-> components, tasks |-> tasks, recvLog |-> recvLog,
             regOrder |-> regOrder, failures |-> affinityFailures,
             dispatched |-> dispatched, cleanupLog |-> cleanupLog,
             removals |-> removals]

SetHubState(hs) ==
    /\ components' = hs.components
    /\ tasks' = hs.tasks
    /\ recvLog' = hs.recvLog
    /\ regOrder' = hs.regOrder
    /\ affinityFailures' = hs.failures
    /\ dispatched' = hs.dispatched
    /\ cleanupLog' = hs.cleanupLog
    /\ removals' = hs.removals

\* hub.py line 86: list(self.components.values()), in dict order
Reversed(seq) == [i \in 1..Len(seq) |-> seq[Len(seq) + 1 - i]]
ComponentValues(seq) == seq

\* Hub._dispatch_to_components: the components whose receive is called
DispatchToAll(comps, msg) == ComponentValues(comps)
DispatchTargets(comps, msg) ==
    IF msg.dst = None
    THEN ComponentValues(comps)
    ELSE IF msg.dst \in Range(comps) THEN <<msg.dst>> ELSE <<>>

\* Hub._hub_thread_receive (body): Component.receive of every target
hub_thread_receive(hs, h, msg) ==
    LET targets == DispatchTargets(hs.components[h], msg)
    IN  [hs EXCEPT
            !.recvLog[h] = @ \o [i \in 1..Len(targets) |-> Received(targets[i], msg)],
            !.dispatched[h] = Append(@, Key(msg))]

\* self.components[component.name] = component: a new key goes last, a key
\* already there keeps its place
DictSetFront(comps, c) == IF c \in Range(comps) THEN comps ELSE <<c>> \o comps
DictSet(comps, c) == IF c \in Range(comps) THEN comps ELSE Append(comps, c)

\* the tasks of component c among the tasks ts
TasksOf(ts, c) == {task \in ts : task.c = c}
HasTask(ts, c) == TasksOf(ts, c) # {}

\* asyncio.create_task(component.run(), name=component.name): a Task object
\* of its own at every call
Task(c, k) == [c |-> c, k |-> k]
create_task(ts, c) ==
    Task(c, CHOOSE k \in 1..(Cardinality(ts) + 1) :
                /\ Task(c, k) \notin ts
                /\ \A j \in 1..(k - 1) : Task(c, j) \in ts)

\* AIOHub._start_component: self.tasks.add(task); whether the component has
\* a task already is not looked at
start_component(ts, c) == ts \cup {create_task(ts, c)}

\* Hub._hub_thread_add_component, and AIOHub's override of it, which starts
\* the component's task when the loop is set
hub_thread_add_component(hs, h, c, loopIsSet) ==
    [hs EXCEPT
        !.components[h] = DictSet(@, c),
        !.regOrder = IF c \in Range(@) THEN @ ELSE Append(@, c),
        !.tasks = IF h = "aio" /\ loopIsSet THEN start_component(@, c) ELSE @]

\* del self.components[component.name], for a name that is in the table
dict_del(comps, c) == SelectSeq(comps, LAMBDA x : x # c)

\* the table as component.cleanup() finds it: the del comes after the call
TableAtCleanupAfterDel(comps, c) == dict_del(comps, c)
TableAtCleanup(comps, c) == comps

\* one _hub_thread_remove_component call: was the component in the table
\* when the call began, when cleanup() ran, when the call ended; was cleanup()
\* called; the exception that ended the call
Removal(h, c, before, during, after, cleaned, error) ==
    [h |-> h, c |-> c, before |-> before, during |-> during, after |-> after,
     cleaned |-> cleaned, error |-> error]

\* Hub._hub_thread_remove_component: component.cleanup(), then
\* del self.components[component.name]; a cleanup() that raises ends the
\* call before the del; the del of a name not in the table raises KeyError
remove_error(comps, c) ==
    IF c \in faulty THEN "cleanup"
    ELSE IF c \notin Range(comps) THEN "KeyError" ELSE "none"

hub_thread_remove_component(hs, h, c) ==
    LET before == hs.components[h]
        seen == TableAtCleanup(before, c)
        error == remove_error(before, c)
        after == IF error = "none" THEN dict_del(before, c) ELSE before
    IN  [hs EXCEPT
            !.cleanupLog = Append(@, c),
            !.components[h] = after,
            !.regOrder = IF error = "none" THEN dict_del(@, c) ELSE @,
            !.removals = @ \cup {Removal(h, c, c \in Range(before),
                                         c \in Range(seen), c \in Range(after),
                                         TRUE, error)}]

\* a callable run by thread t for hub h: check_hub, then the body
ExecCallable(hs, t, h, call, loopIsSet) ==
    IF ~check_hub(t, h)
    THEN [hs EXCEPT !.failures = @ \cup {<<t, h, call.f>>}]
    ELSE CASE call.f = "receive" -> hub_thread_receive(hs, h, call.msg)
           [] call.f = "add" -> hub_thread_add_component(hs, h, call.c, loopIsSet)
           [] call.f = "remove" -> hub_thread_remove_component(hs, h, call.c)
           [] OTHER -> hs

NoDirectCall == [n |-> 0, thread |-> None, c |-> None, method |-> None,
                 raised |-> FALSE]

\* the state when App.__init__ and the add_hub calls for the hubs hs are over
BusInitWith(hs) ==
    /\ halting = FALSE
    /\ noHub = {}
    /\ removals = {}
    /\ cleanupLog = <<>>
    /\ lastCall = NoDirectCall
    /\ hubs = hs
    /\ command_queue = <<>>
    /\ components = [h \in HubTags |-> <<>>]
    /\ loopSet = FALSE
    /\ pre_loop_queue = <<>>
    /\ loop_ready = <<>>
    /\ tasks = {}
    /\ idle_queue = <<>>
    /\ pc = [t \in Threads |->
               IF t = "main" THEN "setup" ELSE "unstarted"]
    /\ appMsg = NoMsg
    /\ appIdx = 0
    /\ rih = [t \in Threads |-> NoCall]
    /\ made = {}
    /\ nextMsg = 1
    /\ recvLog = [h \in HubTags |-> <<>>]
    /\ regOrder = <<>>
    /\ affinityFailures = {}
    /\ owed = {}
    /\ dispatched = [h \in HubTags |-> <<>>]

\* an App with an AIOHub and a GtkHub
BusInit == BusInitWith(<<"aio", "gtk">>)

\* the AIOHub's thread has been started and aio_main has not returned
AioRunning == pc["aio"] \in {"start", "drain", "wait"}

\* the destinations a component addresses: everybody
Dsts == {None}

\* the next component the application constructs
NextComp(c) ==
    \E i \in 1..Len(CompOrder) :
        /\ CompOrder[i] = c
        /\ c \notin made
        /\ \A j \in 1..(i - 1) :
              CompOrder[j] \in made \/ HubOf(CompOrder[j]) \notin Range(hubs)

hubStateVars == <<components, tasks, recvLog, regOrder, affinityFailures,
                  dispatched, cleanupLog, removals>>

\* what the environment may still do, and the record of direct calls
lifeVars == <<noHub, faulty, runMode, addQuota, intQuota, halting>>
envVars == <<quota, removeQuota, lastCall, lifeVars>>

\* the branch of run_in_hub thread t takes on hub h
Branch(t, h) ==
    IF h = "gtk" THEN GtkHub_run_in_hub(t) ELSE AIOHub_run_in_hub(t, loopSet)

\* the effect of the branch of run_in_hub thread t took on hub h
Deliver(t, h, call, branch) ==
    CASE branch = "now" ->
            /\ SetHubState(ExecCallable(HubState, t, h, call, loopSet))
            /\ UNCHANGED <<pre_loop_queue, loop_ready, idle_queue>>
      [] branch = "idle" ->
            /\ idle_queue' = QueuePut(idle_queue, call)
            /\ UNCHANGED <<hubStateVars, pre_loop_queue, loop_ready>>
      [] branch = "pre" ->
            /\ pre_loop_queue' = QueuePut(pre_loop_queue, call)
            /\ UNCHANGED <<hubStateVars, loop_ready, idle_queue>>
      [] branch = "soon" ->
            /\ loop_ready' = QueuePut(loop_ready, call)
            /\ UNCHANGED <<hubStateVars, pre_loop_queue, idle_queue>>

\* self.loop.call_soon_threadsafe with self.loop None by now: AttributeError
LoopGone(branch) == branch = "soon" /\ ~loopSet

\* the hub's thread has run the receive callable of a message: the AIOHub no
\* longer owes its dispatch
Settled(o, call) ==
    IF call.f = "receive" /\ check_hub("aio", "aio") THEN o \ {Key(call.msg)} ELSE o

NewComponentMsg(c) == Msg("new", 0, c, None)

\* App.send(msg): the command is put on the App's queue; the ghost notes the
\* message when the AIOHub is registered and its thread runs
AppSend(msg) ==
    /\ command_queue' = QueuePut(command_queue, SendCmd(msg))
    /\ owed' = IF "aio" \in Range(hubs) /\ AioRunning
               THEN owed \cup {Key(msg)} ELSE owed

\* App.add_component called by the main thread before main(): no hub thread
\* runs yet, the whole call is one step
MainAddComponent(c) ==
    /\ pc["main"] = "setup"
    /\ NextComp(c)
    /\ hubs_get(hubs, HubOf(c)) # None
    /\ Deliver("main", HubOf(c), Callable("add", c, NoMsg), Branch("main", HubOf(c)))
    /\ AppSend(NewComponentMsg(c))
    /\ made' = made \cup {c}
    /\ UNCHANGED <<hubs, loopSet, pc, appMsg, appIdx, rih, nextMsg, envVars, dlVars, auxVars>>

\* App.main_init: every hub's thread is started; main_loop is entered
MainInit ==
    /\ pc["main"] = "setup"
    /\ pc' = [t \in Threads |->
                IF t = "main" THEN "loop"
                ELSE IF t \notin Range(hubs) THEN pc[t]
                ELSE IF t = "aio" THEN "start" ELSE "running"]
    /\ UNCHANGED <<hubs, command_queue, loopSet, pre_loop_queue, loop_ready,
                   idle_queue, appMsg, appIdx, rih, made, nextMsg, owed,
                   hubStateVars, envVars, dlVars, auxVars>>

\* where the App thread stands while hub.join() waits for the thread of hub h
JoinPc(h) == IF h = "aio" THEN "join_aio" ELSE "join_gtk"

\* App.main_loop: while a hub is registered, the next command is taken from
\* the queue and called; _app_thread_send starts its loop over the hubs,
\* _app_thread_remove_hub pops the hub and goes on to join its thread
AppNextCommand ==
    /\ pc["main"] = "loop"
    /\ hubs # <<>>
    /\ command_queue # <<>>
    /\ LET cmd == Head(command_queue)
       IN  /\ command_queue' = Tail(command_queue)
           /\ IF cmd.op = "send"
              THEN /\ appMsg' = cmd.msg
                   /\ appIdx' = 1
                   /\ pc' = [pc EXCEPT !["main"] = "send"]
                   /\ hubs' = hubs
              ELSE /\ hubs' = SelectSeq(hubs, LAMBDA h : h # cmd.hub)
                   /\ pc' = [pc EXCEPT !["main"] = JoinPc(cmd.hub)]
                   /\ UNCHANGED <<appMsg, appIdx>>
    /\ UNCHANGED <<loopSet, pre_loop_queue, loop_ready, idle_queue, rih, made,
                   nextMsg, owed, hubStateVars, envVars, dlVars, auxVars>>

\* _app_thread_send: on to the next hub, or back to main_loop
AppAdvance ==
    IF appIdx >= Len(hubs)
    THEN /\ pc' = [pc EXCEPT !["main"] = "loop"]
         /\ appIdx' = 0
         /\ appMsg' = NoMsg
    ELSE /\ appIdx' = appIdx + 1
         /\ UNCHANGED <<pc, appMsg>>

\* _app_thread_send: hub.receive(msg) of the next hub enters run_in_hub; the
\* call is over in this step unless it has to put the callable on a queue of
\* the AIOHub, which happens in a step of its own
AppHubReceive ==
    /\ pc["main"] = "send"
    /\ rih["main"] = NoCall
    /\ LET h == hubs[appIdx]
           call == Callable("receive", None, appMsg)
           branch == Branch("main", h)
       IN  IF branch \in {"now", "idle"}
           THEN /\ Deliver("main", h, call, branch)
                /\ AppAdvance
                /\ rih' = rih
           ELSE /\ rih' = [rih EXCEPT !["main"] = [call |-> call, branch |-> branch]]
                /\ UNCHANGED <<pc, appMsg, appIdx, hubStateVars,
                               pre_loop_queue, loop_ready, idle_queue>>
    /\ UNCHANGED <<hubs, command_queue, loopSet, made, nextMsg, owed, envVars,
                   dlVars, auxVars>>

\* AIOHub.run_in_hub, called by the App thread: the put on pre_loop_queue or
\* the call_soon_threadsafe the earlier test of self.loop chose
AppHubReceiveEnd ==
    /\ pc["main"] = "send"
    /\ rih["main"] # NoCall
    /\ rih' = [rih EXCEPT !["main"] = NoCall]
    /\ IF LoopGone(rih["main"].branch)
       THEN /\ pc' = [pc EXCEPT !["main"] = "crashed"]
            /\ UNCHANGED <<appMsg, appIdx, hubStateVars, pre_loop_queue,
                           loop_ready, idle_queue>>
       ELSE /\ Deliver("main", hubs[appIdx], rih["main"].call, rih["main"].branch)
            /\ AppAdvance
    /\ UNCHANGED <<hubs, command_queue, loopSet, made, nextMsg, owed, envVars, dlVars, auxVars>>

\* where component code of hub thread t runs: a GTK callback, a task of the
\* asyncio loop
InComponentCode(t) ==
    IF t = "gtk" THEN pc["gtk"] = "running"
    ELSE pc["aio"] = "wait" /\ tasks # {}

\* Component.send(msg) called by component c in its hub's context, then
\* Hub.send and App.send
ComponentSend(c, dst) ==
    /\ c \in Senders
    /\ c \in Range(components[HubOf(c)])
    /\ InComponentCode(HubOf(c))
    /\ HubOf(c) = "aio" => HasTask(tasks, c)
    /\ nextMsg <= quota
    /\ check_hub(HubOf(c), HubOf(c))
    /\ AppSend(Msg("msg", nextMsg, c, dst))
    /\ nextMsg' = nextMsg + 1
    /\ UNCHANGED <<hubs, loopSet, pre_loop_queue, loop_ready, idle_queue, pc,
                   appMsg, appIdx, rih, made, hubStateVars, envVars, dlVars, auxVars>>

\* App.add_component(cls) called by component code of hub thread t: the hub is
\* looked up, the component constructed, hub.add_component enters run_in_hub
AddComponentBegin(t, c) ==
    /\ t \in HubTags
    /\ InComponentCode(t)
    /\ NextComp(c)
    /\ hubs_get(hubs, HubOf(c)) # None
    /\ made' = made \cup {c}
    /\ LET call == Callable("add", c, NoMsg)
           branch == Branch(t, HubOf(c))
       IN  IF branch \in {"now", "idle"}
           THEN /\ Deliver(t, HubOf(c), call, branch)
                /\ rih' = [rih EXCEPT ![t] = [call |-> call, branch |-> "done"]]
                /\ pc' = [pc EXCEPT ![t] = "notify"]
           ELSE /\ rih' = [rih EXCEPT ![t] = [call |-> call, branch |-> branch]]
                /\ pc' = [pc EXCEPT ![t] = "adding"]
                /\ UNCHANGED <<hubStateVars, pre_loop_queue, loop_ready, idle_queue>>
    /\ UNCHANGED <<hubs, command_queue, loopSet, appMsg, appIdx, nextMsg,
                   owed, envVars, dlVars, auxVars>>

BasePc(t) == IF t = "gtk" THEN "running" ELSE "wait"

\* AIOHub.run_in_hub, called from another hub's thread by App.add_component:
\* the put on pre_loop_queue or the call_soon_threadsafe chosen earlier
AddComponentEnd(t) ==
    /\ t \in HubTags
    /\ pc[t] = "adding"
    /\ IF LoopGone(rih[t].branch)
       THEN /\ pc' = [pc EXCEPT ![t] = BasePc(t)]
            /\ rih' = [rih EXCEPT ![t] = NoCall]
            /\ UNCHANGED <<hubStateVars, pre_loop_queue, loop_ready, idle_queue>>
       ELSE /\ Deliver(t, HubOf(rih[t].call.c), rih[t].call, rih[t].branch)
            /\ pc' = [pc EXCEPT ![t] = "notify"]
            /\ rih' = [rih EXCEPT ![t].branch = "done"]
    /\ UNCHANGED <<hubs, command_queue, loopSet, appMsg, appIdx, made, nextMsg,
                   owed, envVars, dlVars, auxVars>>

\* App.add_component: self.send(NewComponent(src=component))
AddComponentNotify(t) ==
    /\ t \in HubTags
    /\ pc[t] = "notify"
    /\ AppSend(NewComponentMsg(rih[t].call.c))
    /\ pc' = [pc EXCEPT ![t] = BasePc(t)]
    /\ rih' = [rih EXCEPT ![t] = NoCall]
    /\ UNCHANGED <<hubs, loopSet, pre_loop_queue, loop_ready, idle_queue,
                   appMsg, appIdx, made, nextMsg, hubStateVars, envVars, dlVars, auxVars>>

\* GtkHub._hub_thread_receive: after the dispatch, gtk_app.quit() for a
\* Shutdown
QuitsGtk(call) ==
    call.f = "receive" /\ call.msg.kind = "shutdown" /\ check_hub("gtk", "gtk")

\* the GTK main loop runs the oldest idle callback; after gtk_app.quit() it
\* may still run some before gtk_app.run returns
GtkIdle ==
    /\ pc["gtk"] \in {"running", "quitting"}
    /\ idle_queue # <<>>
    /\ idle_queue' = Tail(idle_queue)
    /\ SetHubState(ExecCallable(HubState, "gtk", "gtk", Head(idle_queue), loopSet))
    /\ pc' = IF QuitsGtk(Head(idle_queue)) THEN [pc EXCEPT !["gtk"] = "quitting"] ELSE pc
    /\ UNCHANGED <<hubs, command_queue, loopSet, pre_loop_queue, loop_ready,
                   appMsg, appIdx, rih, made, nextMsg, owed, envVars, dlVars, auxVars>>

\* AIOHub.aio_main: self.loop = asyncio.get_event_loop()
AioSetLoop ==
    /\ pc["aio"] = "start"
    /\ loopSet' = TRUE
    /\ pc' = [pc EXCEPT !["aio"] = "drain"]
    /\ UNCHANGED <<hubs, command_queue, pre_loop_queue, loop_ready, idle_queue,
                   appMsg, appIdx, rih, made, nextMsg, owed, hubStateVars,
                   envVars, dlVars, auxVars>>

\* AIOHub.aio_main: self.pre_loop_queue.get_nowait()()
AioDrain ==
    /\ pc["aio"] = "drain"
    /\ pre_loop_queue # <<>>
    /\ pre_loop_queue' = Tail(pre_loop_queue)
    /\ SetHubState(ExecCallable(HubState, "aio", "aio", Head(pre_loop_queue), loopSet))
    /\ owed' = Settled(owed, Head(pre_loop_queue))
    /\ UNCHANGED <<hubs, command_queue, loopSet, loop_ready, idle_queue, pc,
                   appMsg, appIdx, rih, made, nextMsg, envVars, dlVars, auxVars>>

\* AIOHub.aio_main: queue.Empty ends the drain; with tasks the loop is
\* entered, without any self.loop = None follows at once
AioDrainEmpty ==
    /\ pc["aio"] = "drain"
    /\ pre_loop_queue = <<>>
    /\ IF tasks # {}
       THEN /\ pc' = [pc EXCEPT !["aio"] = "wait"]
            /\ loopSet' = loopSet
       ELSE /\ pc' = [pc EXCEPT !["aio"] = "closing"]
            /\ loopSet' = FALSE
    /\ owed' = IF tasks # {} THEN owed ELSE {}
    /\ UNCHANGED <<hubs, command_queue, pre_loop_queue, loop_ready, idle_queue,
                   appMsg, appIdx, rih, made, nextMsg, hubStateVars,
                   envVars, dlVars, auxVars>>

\* App.remove_hub(hub): App.hubs after the call
HubsPopped(hs, h) == SelectSeq(hs, LAMBDA x : x # h)
HubsKept(hs, h) == hs

\* App.remove_hub(hub), called by the thread of hub h as the last thing it
\* does: the removal is put on the App's queue
remove_hub(h) ==
    /\ pc[h] = "closing"
    /\ command_queue' = QueuePut(command_queue, RemoveHubCmd(h))
    /\ hubs' = HubsKept(hubs, h)
    /\ pc' = [pc EXCEPT ![h] = "ending"]
    /\ UNCHANGED <<loopSet, pre_loop_queue, loop_ready, idle_queue,
                   appMsg, appIdx, rih, made, nextMsg, owed, hubStateVars,
                   envVars, dlVars, auxVars>>

\* AIOHub.aio_main: self.app.remove_hub(self)
AioRemoveHub == remove_hub("aio")

\* AIOHub.run / GtkHub.run return: the thread of hub h ends
HubThreadEnd(h) ==
    /\ pc[h] = "ending"
    /\ pc' = [pc EXCEPT ![h] = "exited"]
    /\ UNCHANGED <<hubs, command_queue, loopSet, pre_loop_queue, loop_ready,
                   idle_queue, appMsg, appIdx, rih, made, nextMsg, owed,
                   hubStateVars, envVars, dlVars, auxVars>>

\* App._app_thread_remove_hub: hub.join() returns once the hub's thread has
\* ended; main_loop goes on
AppJoin(h) ==
    /\ pc["main"] = JoinPc(h)
    /\ pc[h] = "exited"
    /\ pc' = [pc EXCEPT !["main"] = "loop"]
    /\ UNCHANGED <<hubs, command_queue, loopSet, pre_loop_queue, loop_ready,
                   idle_queue, appMsg, appIdx, rih, made, nextMsg, owed,
                   hubStateVars, envVars, dlVars, auxVars>>

\* the asyncio loop, while aio_main awaits its tasks, runs the oldest callback
\* handed to call_soon_threadsafe
AioCallback ==
    /\ pc["aio"] = "wait"
    /\ loop_ready # <<>>
    /\ Head(loop_ready).f \in {"receive", "add", "remove"}
    /\ loop_ready' = Tail(loop_ready)
    /\ SetHubState(ExecCallable(HubState, "aio", "aio", Head(loop_ready), loopSet))
    /\ owed' = Settled(owed, Head(loop_ready))
    /\ UNCHANGED <<hubs, command_queue, loopSet, pre_loop_queue, idle_queue, pc,
                   appMsg, appIdx, rih, made, nextMsg, envVars, dlVars, auxVars>>

\* every component's run() goes on for ever, no cleanup() raises and the
\* main thread is not interrupted
Steady == faulty = {} /\ runMode = "forever" /\ addQuota = 0 /\ intQuota = 0

InitBus == BusInit /\ DLInit /\ AuxIdle /\ Steady /\ quota = MaxMsgs /\ removeQuota = 0

NextBus ==
    \/ \E c \in Comps : MainAddComponent(c)
    \/ MainInit
    \/ AppNextCommand
    \/ AppHubReceive
    \/ AppHubReceiveEnd
    \/ \E c \in Comps, dst \in Dsts : ComponentSend(c, dst)
    \/ \E t \in HubTags, c \in Comps : AddComponentBegin(t, c)
    \/ \E t \in HubTags : AddComponentEnd(t)
    \/ \E t \in HubTags : AddComponentNotify(t)
    \/ GtkIdle
    \/ AioSetLoop
    \/ AioDrain
    \/ AioDrainEmpty
    \/ AioRemoveHub
    \/ \E h \in HubTags : HubThreadEnd(h)
    \/ \E h \in HubTags : AppJoin(h)
    \/ AioCallback

SpecBus == InitBus /\ [][NextBus]_vars

\* Hub.remove_component(component) called by component code of hub thread t:
\* run_in_hub(self._hub_thread_remove_component, component)
RemoveComponentBegin(t, c) ==
    /\ t \in HubTags
    /\ InComponentCode(t)
    /\ rih[t] = NoCall
    /\ removeQuota > 0
    /\ c \in made
    /\ removeQuota' = removeQuota - 1
    /\ LET call == Callable("remove", c, NoMsg)
           branch == Branch(t, HubOf(c))
       IN  IF branch \in {"now", "idle"}
           THEN /\ Deliver(t, HubOf(c), call, branch)
                /\ UNCHANGED <<rih, pc>>
           ELSE /\ rih' = [rih EXCEPT ![t] = [call |-> call, branch |-> branch]]
                /\ pc' = [pc EXCEPT ![t] = "removing"]
                /\ UNCHANGED <<hubStateVars, pre_loop_queue, loop_ready, idle_queue>>
    /\ UNCHANGED <<hubs, command_queue, loopSet, appMsg, appIdx, made, nextMsg,
                   owed, quota, lastCall, lifeVars, dlVars, auxVars>>

\* AIOHub.run_in_hub, called from another hub's thread by remove_component
\* or add_component: the put on pre_loop_queue or the call_soon_threadsafe
\* chosen earlier
RemoveComponentEnd(t) ==
    /\ t \in HubTags
    /\ pc[t] = "removing"
    /\ pc' = [pc EXCEPT ![t] = BasePc(t)]
    /\ rih' = [rih EXCEPT ![t] = NoCall]
    /\ IF LoopGone(rih[t].branch)
       THEN UNCHANGED <<hubStateVars, pre_loop_queue, loop_ready, idle_queue>>
       ELSE Deliver(t, HubOf(rih[t].call.c), rih[t].call, rih[t].branch)
    /\ UNCHANGED <<hubs, command_queue, loopSet, appMsg, appIdx, made, nextMsg,
                   owed, envVars, dlVars, auxVars>>

\* the hub-restricted methods of a component that code calls directly
Methods == {"send", "receive", "cleanup"}

\* the message code passes to a direct Component.receive call
DirectMsg(n) == Msg("direct", n, None, None)

\* where thread t runs code of the application: the main thread before
\* main(), a hub thread in component code
InUserCode(t) ==
    IF t = "main" THEN pc["main"] = "setup" ELSE InComponentCode(t) /\ rih[t] = NoCall

\* thread t calls a check_hub-decorated method of component c: the wrapper
\* raises RuntimeError unless self.hub._running_in_hub(), else the body runs:
\* Component.send puts the message on the App's queue, receive hands it to the
\* component, cleanup releases the component's resources
RestrictedCall(t, c, method) ==
    /\ InUserCode(t)
    /\ c \in made
    /\ lastCall.n < MaxCalls
    /\ LET ok == check_hub(t, HubOf(c))
           n == lastCall.n + 1
       IN  /\ lastCall' = [n |-> n, thread |-> t, c |-> c, method |-> method,
                           raised |-> ~ok]
           /\ IF ok /\ method = "send"
              THEN AppSend(Msg("msg", nextMsg, c, None))
              ELSE UNCHANGED <<command_queue, owed>>
           /\ nextMsg' = IF ok /\ method = "send" THEN nextMsg + 1 ELSE nextMsg
           /\ recvLog' =
                IF ok /\ method = "receive"
                THEN [recvLog EXCEPT ![HubOf(c)] = Append(@, Received(c, DirectMsg(n)))]
                ELSE recvLog
           /\ cleanupLog' =
                IF ok /\ method = "cleanup" THEN Append(cleanupLog, c) ELSE cleanupLog
    /\ UNCHANGED <<hubs, loopSet, pre_loop_queue, loop_ready, idle_queue, pc,
                   appMsg, appIdx, rih, made, components, tasks,
                   regOrder, affinityFailures, dispatched, removals, quota,
                   removeQuota, lifeVars,
                   dlVars, auxVars>>

InitAffinity == BusInit /\ DLInit /\ AuxIdle /\ Steady /\ quota = 0 /\ removeQuota = MaxRemoves

NextAffinity ==
    \/ \E c \in Comps : MainAddComponent(c)
    \/ MainInit
    \/ AppNextCommand
    \/ AppHubReceive
    \/ AppHubReceiveEnd
    \/ \E t \in HubTags, c \in Comps : AddComponentBegin(t, c)
    \/ \E t \in HubTags : AddComponentEnd(t)
    \/ \E t \in HubTags : AddComponentNotify(t)
    \/ \E t \in HubTags, c \in Comps : RemoveComponentBegin(t, c)
    \/ \E t \in HubTags : RemoveComponentEnd(t)
    \/ GtkIdle
    \/ AioSetLoop
    \/ AioDrain
    \/ AioDrainEmpty
    \/ AioRemoveHub
    \/ \E h \in HubTags : HubThreadEnd(h)
    \/ \E h \in HubTags : AppJoin(h)
    \/ AioCallback

SpecAffinity == InitAffinity /\ [][NextAffinity]_vars

\* the components are all made before main(); afterwards code calls their
\* restricted methods from every thread
InitDirect == BusInit /\ DLInit /\ AuxIdle /\ Steady /\ quota = 0 /\ removeQuota = 0

NextDirect ==
    \/ \E c \in Comps : MainAddComponent(c)
    \/ MainInit
    \/ AppNextCommand
    \/ AppHubReceive
    \/ AppHubReceiveEnd
    \/ \E t \in Threads, c \in Comps, method \in Methods : RestrictedCall(t, c, method)
    \/ GtkIdle
    \/ AioSetLoop
    \/ AioDrain
    \/ AioDrainEmpty
    \/ AioRemoveHub
    \/ \E h \in HubTags : HubThreadEnd(h)
    \/ \E h \in HubTags : AppJoin(h)
    \/ AioCallback

SpecDirect == InitDirect /\ [][NextDirect]_vars

\* App.add_component(cls) called by code of thread t while no hub with the
\* tag cls.HUB is registered: RuntimeError, before anything is constructed
AddComponentNoHub(t, c) ==
    /\ InUserCode(t)
    /\ NextComp(c)
    /\ hubs_get(hubs, HubOf(c)) = None
    /\ noHub' = noHub \cup {c}
    /\ UNCHANGED <<hubs, command_queue, components, loopSet, pre_loop_queue,
                   loop_ready, tasks, idle_queue, pc, appMsg, appIdx, rih,
                   made, nextMsg, recvLog, regOrder, affinityFailures, owed,
                   dispatched, cleanupLog, removals, faulty, runMode, addQuota,
                   intQuota, halting, quota,
                   removeQuota, lastCall, dlVars, auxVars>>

\* components are added before and after main() has started the hubs, also
\* once the AIOHub, left without a task, has gone
InitAdd == BusInit /\ DLInit /\ AuxIdle /\ Steady /\ quota = 0 /\ removeQuota = 0

NextAdd ==
    \/ \E c \in Comps : MainAddComponent(c)
    \/ MainInit
    \/ AppNextCommand
    \/ AppHubReceive
    \/ AppHubReceiveEnd
    \/ \E t \in HubTags, c \in Comps : AddComponentBegin(t, c)
    \/ \E t \in HubTags : AddComponentEnd(t)
    \/ \E t \in HubTags : AddComponentNotify(t)
    \/ \E t \in Threads, c \in Comps : AddComponentNoHub(t, c)
    \/ GtkIdle
    \/ AioSetLoop
    \/ AioDrain
    \/ AioDrainEmpty
    \/ AioRemoveHub
    \/ \E h \in HubTags : HubThreadEnd(h)
    \/ \E h \in HubTags : AppJoin(h)
    \/ AioCallback

SpecAdd == InitAdd /\ [][NextAdd]_vars

\* when the run() coroutine of component c may return: never, at any time,
\* or once the component has received Shutdown
RunMayReturn(c) ==
    \/ runMode = "free"
    \/ /\ runMode = "shutdown"
       /\ \E i \in 1..Len(recvLog["aio"]) :
             recvLog["aio"][i].c = c /\ recvLog["aio"][i].m.kind = "shutdown"

\* AIOHub._start_component: component.run() returns and the task is done; the
\* loop schedules its done callbacks: self.tasks.discard, then on_done
AioTaskReturns(task) ==
    /\ pc["aio"] = "wait"
    /\ task \in tasks
    /\ RunMayReturn(task.c)
    /\ tasks' = tasks \ {task}
    /\ loop_ready' = QueuePut(loop_ready, Callable("on_done", task.c, NoMsg))
    /\ UNCHANGED <<hubs, command_queue, components, loopSet, pre_loop_queue,
                   idle_queue, pc, appMsg, appIdx, rih, made, nextMsg, recvLog,
                   regOrder, affinityFailures, owed, dispatched, cleanupLog,
                   removals, envVars, dlVars, auxVars>>

\* asyncio runs a done callback from the loop's ready queue: an exception the
\* callback raises is given to the loop's exception handler, which logs it,
\* and the loop goes on
LoopStopsOnCallbackError(p) == "crashed"
LoopAfterCallbackError(p) == p

\* AIOHub._start_component, on_done(task): self.remove_component(component),
\* which run_in_hub runs at once; an exception of the removal is caught and
\* logged by the loop. The completion asyncio.wait added to the task comes
\* next and wakes aio_main up
AioOnDone ==
    /\ pc["aio"] = "wait"
    /\ loop_ready # <<>>
    /\ Head(loop_ready).f = "on_done"
    /\ Branch("aio", "aio") = "now"
    /\ SetHubState(ExecCallable(HubState, "aio", "aio",
                                Callable("remove", Head(loop_ready).c, NoMsg), loopSet))
    /\ loop_ready' = QueuePut(Tail(loop_ready), Callable("wakeup", None, NoMsg))
    /\ pc' = IF remove_error(components["aio"], Head(loop_ready).c) = "none"
             THEN pc
             ELSE [pc EXCEPT !["aio"] = LoopAfterCallbackError(pc["aio"])]
    /\ UNCHANGED <<hubs, command_queue, loopSet, pre_loop_queue, idle_queue,
                   appMsg, appIdx, rih, made, nextMsg, owed, envVars, dlVars, auxVars>>

\* AIOHub.aio_main: asyncio.wait returns and "while self.tasks" is tested
\* again; without tasks self.loop = None follows
AioWakeup ==
    /\ pc["aio"] = "wait"
    /\ loop_ready # <<>>
    /\ Head(loop_ready).f = "wakeup"
    /\ loop_ready' = Tail(loop_ready)
    /\ IF tasks # {}
       THEN UNCHANGED <<pc, loopSet, owed>>
       ELSE /\ pc' = [pc EXCEPT !["aio"] = "closing"]
            /\ loopSet' = FALSE
            /\ owed' = {}
    /\ UNCHANGED <<hubs, command_queue, pre_loop_queue, idle_queue, appMsg,
                   appIdx, rih, made, nextMsg, hubStateVars, envVars, dlVars, auxVars>>

\* an application of two components, one in each hub
Few == {"a", "b1"}

\* the components are made before main(); their run() returns when it likes,
\* and component code asks for removals
InitRemove ==
    /\ BusInit /\ DLInit /\ AuxIdle
    /\ faulty = {} /\ runMode = "free" /\ addQuota = 0 /\ intQuota = 0
    /\ quota = 0 /\ removeQuota = MaxRemoves

NextRemove ==
    \/ \E c \in Few : MainAddComponent(c)
    \/ MainInit
    \/ AppNextCommand
    \/ AppHubReceive
    \/ AppHubReceiveEnd
    \/ \E t \in HubTags, c \in Comps : RemoveComponentBegin(t, c)
    \/ \E t \in HubTags : RemoveComponentEnd(t)
    \/ \E task \in tasks : AioTaskReturns(task)
    \/ AioOnDone
    \/ AioWakeup
    \/ GtkIdle
    \/ AioSetLoop
    \/ AioDrain
    \/ AioDrainEmpty
    \/ AioRemoveHub
    \/ \E h \in HubTags : HubThreadEnd(h)
    \/ \E h \in HubTags : AppJoin(h)
    \/ AioCallback

SpecRemove == InitRemove /\ [][NextRemove]_vars

\* hub.add_component(component) called again, by code of hub thread t, for a
\* component that App.add_component has made
AddAgainBegin(t, c) ==
    /\ t \in HubTags
    /\ InComponentCode(t)
    /\ rih[t] = NoCall
    /\ addQuota > 0
    /\ c \in made
    /\ addQuota' = addQuota - 1
    /\ LET call == Callable("add", c, NoMsg)
           branch == Branch(t, HubOf(c))
       IN  IF branch \in {"now", "idle"}
           THEN /\ Deliver(t, HubOf(c), call, branch)
                /\ UNCHANGED <<rih, pc>>
           ELSE /\ rih' = [rih EXCEPT ![t] = [call |-> call, branch |-> branch]]
                /\ pc' = [pc EXCEPT ![t] = "removing"]
                /\ UNCHANGED <<hubStateVars, pre_loop_queue, loop_ready, idle_queue>>
    /\ UNCHANGED <<hubs, command_queue, loopSet, appMsg, appIdx, made, nextMsg,
                   owed, quota, removeQuota, lastCall, noHub, faulty, runMode,
                   intQuota, halting, dlVars, auxVars>>

\* the components are made before main() and run for ever; component code
\* hands a component to its hub a second time
InitAddAgain ==
    /\ BusInit /\ DLInit /\ AuxIdle
    /\ faulty = {} /\ runMode = "forever" /\ addQuota = MaxAddAgain /\ intQuota = 0
    /\ quota = 0 /\ removeQuota = 0

NextAddAgain ==
    \/ \E c \in Few : MainAddComponent(c)
    \/ MainInit
    \/ AppNextCommand
    \/ AppHubReceive
    \/ AppHubReceiveEnd
    \/ \E t \in HubTags, c \in Comps : AddAgainBegin(t, c)
    \/ \E t \in HubTags : RemoveComponentEnd(t)
    \/ GtkIdle
    \/ AioSetLoop
    \/ AioDrain
    \/ AioDrainEmpty
    \/ AioRemoveHub
    \/ \E h \in HubTags : HubThreadEnd(h)
    \/ \E h \in HubTags : AppJoin(h)
    \/ AioCallback

SpecAddAgain == InitAddAgain /\ [][NextAddAgain]_vars

\* the names messages are addressed to: a component of the AIOHub, and a
\* name no component has
Routes == {"b1", "nobody"}

\* the components are made before main() and run for ever; component a
\* addresses its messages
InitRoute == BusInit /\ DLInit /\ AuxIdle /\ Steady /\ quota = MaxMsgs /\ removeQuota = 0

NextRoute ==
    \/ \E c \in Comps : MainAddComponent(c)
    \/ MainInit
    \/ AppNextCommand
    \/ AppHubReceive
    \/ AppHubReceiveEnd
    \/ \E c \in Comps, dst \in Routes : ComponentSend(c, dst)
    \/ GtkIdle
    \/ AioSetLoop
    \/ AioDrain
    \/ AioDrainEmpty
    \/ AioRemoveHub
    \/ \E h \in HubTags : HubThreadEnd(h)
    \/ \E h \in HubTags : AppJoin(h)
    \/ AioCallback

SpecRoute == InitRoute /\ [][NextRoute]_vars

\* ------------------------------------------------------------------------
\* Shutdown

\* Shutdown(): a broadcast, sent by the App itself (n = 0) or by the GtkHub
\* (n = 1)
ShutdownMsg(n) == Msg("shutdown", n, None, None)

\* what becomes of a KeyboardInterrupt raised in self._next_command()
InterruptPropagates(p) == "crashed"
InterruptCaught(p) == p

\* App.main_loop: KeyboardInterrupt is raised in self._next_command(); the
\* handler calls self.send(Shutdown()) and the loop goes on
AppInterrupt ==
    /\ pc["main"] = "loop"
    /\ hubs # <<>>
    /\ intQuota > 0
    /\ intQuota' = intQuota - 1
    /\ halting' = TRUE
    /\ pc' = [pc EXCEPT !["main"] = InterruptCaught(pc["main"])]
    /\ AppSend(ShutdownMsg(0))
    /\ UNCHANGED <<hubs, loopSet, pre_loop_queue, loop_ready, idle_queue,
                   appMsg, appIdx, rih, made, nextMsg, hubStateVars, quota,
                   removeQuota, lastCall, noHub, faulty, runMode, addQuota,
                   dlVars, auxVars>>

\* App.main_loop: "while self.hubs" is false, main_loop returns and so does
\* main()
AppMainLoopExit ==
    /\ pc["main"] = "loop"
    /\ hubs = <<>>
    /\ pc' = [pc EXCEPT !["main"] = "done"]
    /\ UNCHANGED <<hubs, command_queue, loopSet, pre_loop_queue, loop_ready,
                   idle_queue, appMsg, appIdx, rih, made, nextMsg, owed,
                   hubStateVars, envVars, dlVars, auxVars>>

\* GtkHub.run: gtk_app.run(None) returns after gtk_app.quit(), and
\* self.send(Shutdown()) follows; idle callbacks still queued are never run
GtkRunReturns ==
    /\ pc["gtk"] = "quitting"
    /\ pc' = [pc EXCEPT !["gtk"] = "closing"]
    /\ halting' = TRUE
    /\ AppSend(ShutdownMsg(1))
    /\ UNCHANGED <<hubs, loopSet, pre_loop_queue, loop_ready, idle_queue,
                   appMsg, appIdx, rih, made, nextMsg, hubStateVars, quota,
                   removeQuota, lastCall, noHub, faulty, runMode, addQuota,
                   intQuota, dlVars, auxVars>>

\* GtkHub.run: self.app.remove_hub(self)
GtkRemoveHub == remove_hub("gtk")

\* what the threads of the application do when they are scheduled
MainSteps ==
    \/ MainInit
    \/ AppNextCommand
    \/ AppHubReceive
    \/ AppHubReceiveEnd
    \/ \E h \in HubTags : AppJoin(h)
    \/ AppMainLoopExit
AioSteps ==
    \/ AioSetLoop
    \/ AioDrain
    \/ AioDrainEmpty
    \/ AioCallback
    \/ \E task \in tasks : AioTaskReturns(task)
    \/ AioOnDone
    \/ AioWakeup
    \/ AioRemoveHub
    \/ HubThreadEnd("aio")
GtkSteps ==
    \/ GtkIdle
    \/ GtkRunReturns
    \/ GtkRemoveHub
    \/ HubThreadEnd("gtk")

\* every thread that can take a step is scheduled in the end
Scheduling == WF_vars(MainSteps) /\ WF_vars(AioSteps) /\ WF_vars(GtkSteps)

\* the applications that are shut down: without hubs, with an AIOHub, with
\* an AIOHub and a GtkHub
HubSets == {<<>>, <<"aio">>, <<"aio", "gtk">>}

\* every run() returns once its component has received Shutdown; the main
\* thread is interrupted while it runs main_loop
InitStop ==
    /\ \E hs \in HubSets : BusInitWith(hs)
    /\ DLInit /\ AuxIdle
    /\ faulty = {} /\ runMode = "shutdown" /\ addQuota = 0
    /\ intQuota = MaxInterrupts
    /\ quota = 0 /\ removeQuota = 0

NextStop ==
    \/ \E c \in Few : MainAddComponent(c)
    \/ AppInterrupt
    \/ MainSteps
    \/ AioSteps
    \/ GtkSteps

SpecStop == InitStop /\ [][NextStop]_vars /\ Scheduling

\* the components of an application with an AIOHub only
AioComps == {c \in Comps : HubOf(c) = "aio"}

\* an application with an AIOHub only, interrupted once; the cleanup() of
\* any of its components may raise
InitCleanup ==
    /\ BusInitWith(<<"aio">>)
    /\ DLInit /\ AuxIdle
    /\ faulty \in SUBSET AioComps
    /\ runMode = "shutdown" /\ addQuota = 0
    /\ intQuota = OneInterrupt
    /\ quota = 0 /\ removeQuota = 0

NextCleanup ==
    \/ \E c \in AioComps : MainAddComponent(c)
    \/ AppInterrupt
    \/ MainInit
    \/ AppNextCommand
    \/ AppHubReceive
    \/ AppHubReceiveEnd
    \/ AppJoin("aio")
    \/ AppMainLoopExit
    \/ AioSteps

SpecCleanup ==
    InitCleanup /\ [][NextCleanup]_vars /\ WF_vars(MainSteps) /\ WF_vars(AioSteps)

InitDL == DLInit /\ AuxIdle /\ BusInit /\ Steady /\ quota = 0 /\ removeQuota = 0

NextDL ==
    \/ \E d \in 0..MaxDelay : DLAdd(d)
    \/ \E frames \in 0..MaxFrames : DLTick(frames)

SpecDL == InitDL /\ [][NextDL]_vars

\* ------------------------------------------------------------------------
\* Component.send
\* ------------------------------------------------------------------------

\* how far time.time() advances
MaxClock == 3
\* how many Component.send calls are made
MaxSends == 2

\* Message.ts when it is None
NoTs == -1

\* what a caller may have put in msg.src and msg.ts before the call
GivenSrc == {None, "a", "b1"}
GivenDst == {None, "b1"}
GivenTs == {NoTs} \cup (0..MaxClock)

\* a Message object: src, ts, dst and its identity
SentMsg(id, src, ts, dst) == [id |-> id, src |-> src, ts |-> ts, dst |-> dst]

\* Component.send: msg.src = self; msg.ts = time.time() if msg.ts is None
StampKeepSrc(c, msg, now) ==
    [msg EXCEPT !.src = IF @ = None THEN c ELSE @,
                !.ts = IF @ = NoTs THEN now ELSE @]
StampAlways(c, msg, now) == [msg EXCEPT !.src = c, !.ts = now]
Stamp(c, msg, now) ==
    [msg EXCEPT !.src = c, !.ts = IF @ = NoTs THEN now ELSE @]

\* App.send: one put on App.command_queue
App_send(q, msg) == Append(q, msg)

\* Hub.send: self.app.send(msg)
Hub_send(q, msg) == App_send(q, msg)

\* Component.send(msg), called by component c in its hub's context
Component_send(c, id, src, ts, dst) ==
    /\ Len(appQueue) < MaxSends
    /\ check_hub(HubOf(c), HubOf(c))
    /\ LET msg == SentMsg(id, src, ts, dst)
       IN  /\ appQueue' = Hub_send(appQueue, Stamp(c, msg, wallClock))
           /\ lastSend' = [n |-> lastSend.n + 1, c |-> c, msg |-> msg,
                           now |-> wallClock, before |-> appQueue]
    /\ UNCHANGED <<wallClock, exceptSend>>

\* time passes
ClockTick ==
    /\ wallClock < MaxClock
    /\ wallClock' = wallClock + 1
    /\ UNCHANGED <<appQueue, lastSend, exceptSend>>

\* the parts of the model other than part are in their initial state
QuietBut(part) ==
    /\ DLInit /\ BusInit /\ Steady /\ quota = 0 /\ removeQuota = 0
    /\ AuxIdleBut(part)

InitSend == QuietBut("send") /\ SendIdle

NextSend ==
    \/ \E c \in Comps, src \in GivenSrc, ts \in GivenTs, dst \in GivenDst :
          Component_send(c, Len(appQueue) + 1, src, ts, dst)
    \/ ClockTick

SpecSend == InitSend /\ [][NextSend]_vars

\* ------------------------------------------------------------------------
\* Messages as JSON
\* ------------------------------------------------------------------------

\* the message classes, and the module that defines each
MessageClasses ==
    {"Message", "Shutdown", "NewComponent", "ComponentActiveStateChanged",
     "DeviceScanRequest", "ConfigSaveRequest", "Configure", "EmergencyStop",
     "Shortcut", "Pause", "Resume", "SetRate", "SetPower"}

ModuleOf(cls) ==
    CASE cls = "Message" -> "pyeep.messages.message"
      [] cls \in {"Shutdown", "NewComponent", "ComponentActiveStateChanged",
                  "DeviceScanRequest"} -> "pyeep.messages.component"
      [] cls \in {"ConfigSaveRequest", "Configure"} -> "pyeep.messages.config"
      [] cls \in {"EmergencyStop", "Shortcut", "Pause", "Resume"} -> "pyeep.messages.input"
      [] OTHER -> "pyeep.messages.power"

\* the keyword argument the class's __init__ requires besides Message's own
NoParam == "-"
InitParam(cls) ==
    CASE cls = "ComponentActiveStateChanged" -> "value"
      [] cls = "DeviceScanRequest" -> "duration"
      [] cls = "Configure" -> "config"
      [] cls = "Shortcut" -> "command"
      [] cls \in {"Pause", "Resume"} -> "group"
      [] cls = "SetRate" -> "rate"
      [] cls = "SetPower" -> "power"
      [] OTHER -> NoParam

\* the key the class's own as_jsonable adds to Message.as_jsonable's;
\* ComponentActiveStateChanged and DeviceScanRequest define no as_jsonable
EncodedParam(cls) ==
    IF cls \in {"ComponentActiveStateChanged", "DeviceScanRequest"}
    THEN NoParam
    ELSE InitParam(cls)

\* Message.src: None, a Component object, or (after decoding) a str
SrcNone == [t |-> "None", v |-> "-"]
SrcComponent(c) == [t |-> "Component", v |-> c]
SrcStr(s) == [t |-> "str", v |-> s]

\* Message.dst and Message.name: None or a str
NoStr == "None"

\* the value of the kind-specific field of a class without one
NoArg == 0

\* a message object
MessageObj(cls, ts, src, dst, name, arg) ==
    [cls |-> cls, ts |-> ts, src |-> src, dst |-> dst, name |-> name, arg |-> arg]

\* Message.__init__: name defaults to the lowercased class name
Lower(cls) ==
    CASE cls = "Message" -> "message"
      [] cls = "Shutdown" -> "shutdown"
      [] cls = "NewComponent" -> "newcomponent"
      [] cls = "ComponentActiveStateChanged" -> "componentactivestatechanged"
      [] cls = "DeviceScanRequest" -> "devicescanrequest"
      [] cls = "ConfigSaveRequest" -> "configsaverequest"
      [] cls = "Configure" -> "configure"
      [] cls = "EmergencyStop" -> "emergencystop"
      [] cls = "Shortcut" -> "shortcut"
      [] cls = "Pause" -> "pause"
      [] cls = "Resume" -> "resume"
      [] cls = "SetRate" -> "setrate"
      [] OTHER -> "setpower"

Message_init(cls, ts, src, dst, name, arg) ==
    MessageObj(cls, ts, src, dst, IF name = NoStr THEN Lower(cls) ELSE name, arg)

\* Jsonable.as_jsonable, Message.as_jsonable and the subclass's: a dict
BaseKeys == {"__module__", "__class__", "ts", "src", "dst", "name"}
as_jsonable(msg) ==
    LET base == [k \in BaseKeys |->
                    CASE k = "__module__" -> ModuleOf(msg.cls)
                      [] k = "__class__" -> msg.cls
                      [] k = "ts" -> msg.ts
                      [] k = "src" -> IF msg.src.t = "Component"
                                      THEN SrcStr(msg.src.v) ELSE SrcNone
                      [] k = "dst" -> msg.dst
                      [] OTHER -> msg.name]
    IN  IF EncodedParam(msg.cls) = NoParam
        THEN base
        ELSE (EncodedParam(msg.cls) :> msg.arg) @@ base

\* dict.pop(key) leaves the other keys
dict_without(d, keys) == [k \in DOMAIN d \ keys |-> d[k]]

\* Jsonable.jsonable_class: pops "__module__" and "__class__", imports the
\* module and gets the class from it; None when either fails
NoClass == "None"
jsonable_class(d) ==
    IF ~({"__module__", "__class__"} \subseteq DOMAIN d) THEN NoClass
    ELSE IF d["__class__"] \in MessageClasses /\ ModuleOf(d["__class__"]) = d["__module__"]
         THEN d["__class__"]
         ELSE NoClass

\* cls(**fields): TypeError for a required keyword argument that is missing
\* and for a keyword argument the class does not take
TypeError == [cls |-> "TypeError"]
Instantiate(cls, fields) ==
    LET takes == {"ts", "src", "dst", "name"} \cup ({InitParam(cls)} \ {NoParam})
    IN  IF InitParam(cls) # NoParam /\ InitParam(cls) \notin DOMAIN fields
        THEN TypeError
        ELSE IF ~(DOMAIN fields \subseteq takes) THEN TypeError
        ELSE Message_init(cls,
                IF "ts" \in DOMAIN fields THEN fields["ts"] ELSE NoTs,
                IF "src" \in DOMAIN fields THEN fields["src"] ELSE SrcNone,
                IF "dst" \in DOMAIN fields THEN fields["dst"] ELSE NoStr,
                IF "name" \in DOMAIN fields THEN fields["name"] ELSE NoStr,
                IF InitParam(cls) = NoParam THEN NoArg ELSE fields[InitParam(cls)])

\* the values a test gives the fields of a message
TsValues == {NoTs, 0, 12}
SrcValues == {SrcNone, SrcComponent("a")}
DstValues == {NoStr, "b1"}
NameValues == {NoStr, "custom"}
ArgValues(cls) == IF InitParam(cls) = NoParam THEN {NoArg} ELSE {1, 3}

\* a message of every class, with and without ts, src, dst and name
JsonMake ==
    /\ jsPc = "idle"
    /\ \E cls \in MessageClasses, ts \in TsValues, src \in SrcValues,
          dst \in DstValues, name \in NameValues :
          \E arg \in ArgValues(cls) :
             jsMsg' = Message_init(cls, ts, src, dst, name, arg)
    /\ jsPc' = "made"
    /\ UNCHANGED <<jsDict, jsClass, jsOut, exceptJson>>

\* dict1 = msg.as_jsonable()
JsonEncode ==
    /\ jsPc = "made"
    /\ jsDict' = as_jsonable(jsMsg)
    /\ jsPc' = "encoded"
    /\ UNCHANGED <<jsMsg, jsClass, jsOut, exceptJson>>

\* cls = Jsonable.jsonable_class(dict2), which pops its two keys
JsonLookup ==
    /\ jsPc = "encoded"
    /\ jsClass' = jsonable_class(jsDict)
    /\ jsDict' = dict_without(jsDict, {"__module__", "__class__"})
    /\ jsPc' = "looked_up"
    /\ UNCHANGED <<jsMsg, jsOut, exceptJson>>

\* msg1 = cls(**dict2)
JsonInstantiate ==
    /\ jsPc = "looked_up"
    /\ jsClass # NoClass
    /\ jsOut' = Instantiate(jsClass, jsDict)
    /\ jsPc' = "decoded"
    /\ UNCHANGED <<jsMsg, jsDict, jsClass, exceptJson>>

InitJson == QuietBut("json") /\ JsonIdle

NextJson == JsonMake \/ JsonEncode \/ JsonLookup \/ JsonInstantiate

SpecJson == InitJson /\ [][NextJson]_vars

\* ------------------------------------------------------------------------
\* Envelope (pyeep/midisynth.py)
\* ------------------------------------------------------------------------

\* longest attack, decay and release of an EnvelopeShape, in frames
MaxAttack == 2
MaxDecay == 2
MaxRelease == 2
\* last frame a window starts at or an event is stamped with
MaxTime == 6
\* longest window asked of generate
MaxWindow == 4

\* sample values are exact fractions n/d, d > 0, in lowest terms
RECURSIVE GCD(_, _)
GCD(a, b) == IF b = 0 THEN a ELSE GCD(b, a % b)
Abs(x) == IF x < 0 THEN -x ELSE x
Frac(n, d) ==
    LET g == GCD(Abs(n), d)
    IN  IF n = 0 THEN [n |-> 0, d |-> 1] ELSE [n |-> n \div g, d |-> d \div g]
Zero == Frac(0, 1)
One == Frac(1, 1)
Lcm(a, b) == (a \div GCD(a, b)) * b
\* common factors are taken out before multiplying, to keep numbers small
FracMul(x, y) ==
    LET g1 == GCD(Abs(x.n), y.d)
        g2 == GCD(Abs(y.n), x.d)
    IN  Frac((x.n \div g1) * (y.n \div g2), (x.d \div g2) * (y.d \div g1))
FracAdd(x, y) ==
    LET l == Lcm(x.d, y.d)
    IN  Frac(x.n * (l \div x.d) + y.n * (l \div y.d), l)
FracSub(x, y) == FracAdd(x, [n |-> -y.n, d |-> y.d])

\* Op applied to the value of v, v being worked out once
Bind(v, Op(_)) == CHOOSE r \in {Op(x) : x \in {v}} : TRUE

Min(a, b) == IF a < b THEN a ELSE b
Max(a, b) == IF a > b THEN a ELSE b

\* numpy.linspace(a, b, num): num evenly spaced samples from a to b, both
\* ends included; one sample is a, none is the empty array
linspace(a, b, num) ==
    IF num = 1 THEN <<a>>
    ELSE [i \in 1..num |->
            FracAdd(a, FracMul(FracSub(b, a), Frac(i - 1, num - 1)))]

\* numpy.full(count, value), numpy.zeros(count)
full(count, value) == [i \in 1..count |-> value]
zeros(count) == full(count, Zero)

\* a[lo:hi] of a one-dimensional array: a negative bound counts from the
\* end, bounds are clipped to the array, lo >= hi gives the empty array
ClipIndex(len, i) == IF i < 0 THEN Max(0, i + len) ELSE Min(i, len)
PySlice(a, lo, hi) ==
    LET l == ClipIndex(Len(a), lo)
        h == ClipIndex(Len(a), hi)
    IN  IF l >= h THEN <<>> ELSE SubSeq(a, l + 1, h)

\* a[i]: a negative index counts from the end
PyIndex(a, i) == IF i < 0 THEN a[i + Len(a) + 1] ELSE a[i + 1]

\* EnvelopeShape; attack_time, decay_time and release_time are kept as the
\* frame counts round(time * rate)
EnvelopeShape(attack_level, attack, decay, sustain_level, release) ==
    [attack_level |-> attack_level, attack |-> attack, decay |-> decay,
     sustain_level |-> sustain_level, release |-> release]

\* Envelope.__init__: release_start = 0, head precomputed; self.tail is only
\* annotated there, release() is what sets it
Envelope_init(shape, frame_time, start_level, velocity) ==
    [shape |-> shape,
     start_frame |-> frame_time,
     velocity |-> velocity,
     release_frames |-> shape.release,
     release_start |-> 0,
     head |-> linspace(FracMul(start_level, velocity),
                       FracMul(shape.attack_level, velocity), shape.attack)
              \o linspace(FracMul(shape.attack_level, velocity),
                          FracMul(shape.sustain_level, velocity), shape.decay),
     tail |-> <<>>,
     released |-> FALSE]

\* self.shape.sustain_level * self.velocity
SustainValue(env) == FracMul(env.shape.sustain_level, env.velocity)

\* Envelope.release; "released" is a ghost: release() has been called
Envelope_release(env, frame_time) ==
    LET elapsed == frame_time - env.start_frame
        start_level == IF elapsed < Len(env.head)
                       THEN PyIndex(env.head, elapsed)
                       ELSE SustainValue(env)
    IN  [env EXCEPT !.release_start = elapsed,
                    !.tail = linspace(start_level, Zero, env.release_frames),
                    !.released = TRUE]

\* what get_chunk and generate return: None, or an array
NoneResult == [kind |-> "None", data |-> <<>>]
Array(data) == [kind |-> "array", data |-> data]
\* generate never returns: a chunk was empty and start stays where it is
Hangs == [kind |-> "hangs", data |-> <<>>]

\* the test get_chunk makes to tell a released envelope
IsReleased(env) == env.release_start > 0

\* Envelope.get_chunk
get_chunk(env, frame_time, frames) ==
    LET elapsed == frame_time - env.start_frame
    IN  IF IsReleased(env) /\ elapsed >= env.release_start
        THEN IF elapsed >= env.release_start + Len(env.tail)
             THEN NoneResult
             ELSE LET offset == elapsed - env.release_start
                      size == Min(frames, Len(env.tail))
                  IN  Array(PySlice(env.tail, offset, offset + size))
        ELSE IF elapsed >= Len(env.head)
        THEN LET count == IF env.release_start = 0 THEN frames
                          ELSE Min(frames, env.release_start - elapsed)
             IN  Array(full(count, SustainValue(env)))
        ELSE LET size0 == Min(frames, Len(env.head))
                 size == IF env.release_start > 0
                         THEN Min(size0, env.release_start - elapsed)
                         ELSE size0
             IN  Array(PySlice(env.head, elapsed, elapsed + size))

\* Envelope.generate: the loop, with res filled up to start
RECURSIVE generate_loop(_, _, _, _, _, _)
generate_loop(env, frame_time, frames, start, res, has_data) ==
    IF start >= frames THEN Array(res)
    ELSE Bind(get_chunk(env, frame_time + start, frames - start),
              LAMBDA chunk :
                IF chunk = NoneResult
                THEN IF ~has_data THEN NoneResult
                     ELSE Array(res \o zeros(frames - start))
                ELSE IF chunk.data = <<>> THEN Hangs
                ELSE Bind(res \o chunk.data,
                          LAMBDA filled :
                            generate_loop(env, frame_time, frames,
                                          start + Len(chunk.data), filled, TRUE)))

Envelope_generate(env, frame_time, frames) ==
    generate_loop(env, frame_time, frames, 0, <<>>, FALSE)

\* latest frame an envelope starts at
MaxStart == 2

\* the levels and velocities envelopes are made with
HalfLevel == Frac(1, 2)
QuarterLevel == Frac(1, 4)
Velocity(v) == Frac(v, 127)
Shapes ==
    {EnvelopeShape(One, a, d, HalfLevel, r) :
        a \in 0..MaxAttack, d \in 0..MaxDecay, r \in 0..MaxRelease}
StartFrames == {0, MaxStart}
StartLevels == {Zero, QuarterLevel}
Velocities == {Velocity(127), Velocity(64)}

NoEnvCall == [op |-> "none", t |-> 0, n |-> 0, result |-> NoneResult]

\* a client (Note._process_event on note_off) releases the envelope
EnvRelease ==
    /\ envelope # <<>>
    /\ \E r \in envelope.start_frame..MaxTime :
        /\ envelope' = Envelope_release(envelope, r)
        /\ envCall' = [op |-> "release", t |-> r, n |-> 0, result |-> NoneResult]
    /\ UNCHANGED exceptAdsr

\* a client asks for the window [t, t + n)
EnvGenerate ==
    /\ envelope # <<>>
    /\ \E t \in 0..MaxTime, n \in 0..MaxWindow :
        envCall' = [op |-> "generate", t |-> t, n |-> n,
                    result |-> Envelope_generate(envelope, t, n)]
    /\ UNCHANGED <<envelope, exceptAdsr>>

InitEnv ==
    /\ QuietBut("adsr")
    /\ envelope \in {Envelope_init(shape, sf, sl, v) :
                        shape \in Shapes, sf \in StartFrames,
                        sl \in StartLevels, v \in Velocities}
    /\ envCall = NoEnvCall
NextEnv == EnvRelease \/ EnvGenerate
SpecEnv == InitEnv /\ [][NextEnv]_vars

\* ------------------------------------------------------------------------
\* Note, Saw and Instrument (pyeep/midisynth.py)
\* ------------------------------------------------------------------------

\* AudioConfig.out_samplerate, scaled down so that windows cross a second
out_samplerate == 4
\* most events added to the instrument
MaxNoteEvents == 2
\* last frame an event of the instrument is stamped with or a window covers
MaxNoteTime == 4

\* A above middle C, the note get_semitone counts from, and its frequency
A4 == 69
A4Freq == 440
\* middle C
C4 == 60
\* a pitchwheel position that bends upwards, and the centre
BendUp == 4096
NoBend == 0

\* mido messages: note_on, note_off and pitchwheel, all with a time
NoteOn(note, velocity, time) ==
    [type |-> "note_on", note |-> note, velocity |-> velocity,
     pitch |-> NoBend, time |-> time]
NoteOff(note, time) ==
    [type |-> "note_off", note |-> note, velocity |-> 0,
     pitch |-> NoBend, time |-> time]
Pitchwheel(pitch, time) ==
    [type |-> "pitchwheel", note |-> 0, velocity |-> 0,
     pitch |-> pitch, time |-> time]

\* self.envelope is None
NoEnvelope == <<>>

\* Note.__init__; last_pitchwheel is kept as its pitch, None being 0 (a
\* pitchwheel of pitch 0 is stored as None); hung is a ghost: a call made
\* on behalf of the note did not return
Note_init(note, shape) ==
    [note |-> note, envelope_shape |-> shape, next_events |-> <<>>,
     last_pitchwheel |-> NoBend, envelope |-> NoEnvelope, hung |-> FALSE]

\* Note.add_event
Note_add_event(n, msg) == [n EXCEPT !.next_events = Append(@, msg)]

\* Note._process_event
process_event(n, msg) ==
    IF msg.type = "note_on"
    THEN Bind(IF n.envelope = NoEnvelope THEN NoneResult
              ELSE Envelope_generate(n.envelope, msg.time, 1),
              LAMBDA chunk :
                Bind(IF chunk.kind = "array" THEN chunk.data[1] ELSE Zero,
                     LAMBDA start_level :
                        [n EXCEPT !.envelope =
                                    Envelope_init(n.envelope_shape, msg.time,
                                                  start_level,
                                                  Velocity(msg.velocity)),
                                  !.hung = @ \/ chunk = Hangs]))
    ELSE IF msg.type = "note_off"
    THEN IF n.envelope = NoEnvelope THEN n
         ELSE [n EXCEPT !.envelope = Envelope_release(@, msg.time)]
    ELSE [n EXCEPT !.last_pitchwheel = msg.pitch]

\* Note.get_events, an event older than the window: it is logged and
\* handed to _process_event
underrun_dropped(n, msg) == n
underrun_event(n, msg) == process_event(n, msg)

\* Note.get_events: the loop; events are those of the window, underrun
\* (a ghost) those handed to _process_event because they are too old
RECURSIVE get_events_loop(_, _, _, _, _)
get_events_loop(n, frame_time, frames, evs, underrun) ==
    IF n.next_events # <<>> /\ Head(n.next_events).time < frame_time + frames
    THEN LET msg == Head(n.next_events)
             popped == [n EXCEPT !.next_events = Tail(@)]
         IN  IF msg.time < frame_time
             THEN Bind(underrun_event(popped, msg),
                       LAMBDA n1 :
                         get_events_loop(n1, frame_time, frames, evs,
                                         Append(underrun, msg)))
             ELSE get_events_loop(popped, frame_time, frames,
                                  Append(evs, msg), underrun)
    ELSE [note |-> n, inside |-> evs, underrun |-> underrun]

get_events(n, frame_time, frames) ==
    get_events_loop(n, frame_time, frames, <<>>, <<>>)

\* one output frame to which nothing was added
Silent == [level |-> Zero, wave |-> <<>>]

\* Note.get_freq is 440 * 2 ** (semitone / 12): a whole number of Hz for an
\* unbent A, an irrational one for an unbent C or a bent note
HasWholeFreq(n) == n.note = A4 /\ n.last_pitchwheel = NoBend

\* sawtooth(2 * pi * freq / rate * x): the sawtooth has period 2 * pi and
\* takes each value once per period, so with a whole freq the value is told
\* by (freq * x) % rate, and with an irrational one every x has its own
Sawtooth(n, x) ==
    IF HasWholeFreq(n) THEN <<"phase", (A4Freq * x) % out_samplerate>>
    ELSE <<"x", n.note, n.last_pitchwheel, x>>

\* Saw.add_wave: what is added to the array, frame by frame; a frame of
\* envelope level 0 adds nothing
Saw_add_wave(n, frame_time, levels) ==
    LET time == frame_time % out_samplerate
    IN  [i \in 1..Len(levels) |->
            IF levels[i] = Zero THEN Silent
            ELSE [level |-> levels[i], wave |-> Sawtooth(n, time + i - 1)]]

\* Note.synth with Note.get_envelope: what is added to array, and whether
\* the call returns
synth(n, frame_time, frames) ==
    Bind(IF n.envelope = NoEnvelope THEN NoneResult
         ELSE Envelope_generate(n.envelope, frame_time, frames),
         LAMBDA levels :
            [added |-> IF levels.kind = "array"
                       THEN Saw_add_wave(n, frame_time, levels.data)
                       ELSE [i \in 1..frames |-> Silent],
             hung |-> levels = Hangs])

\* Note.generate: where in the array the event falls
event_offset_start(msg, frame_time) == 0
event_offset(msg, frame_time) == msg.time - frame_time

\* Note.generate: the loop over the events of the window; add_event's
\* callers keep times growing, so offset never falls below last_offset and
\* the pieces synthesized follow one another
RECURSIVE generate_events(_, _, _, _, _, _)
generate_events(n, frame_time, frames, evs, last_offset, added) ==
    IF evs = <<>>
    THEN IF frames > last_offset
         THEN Bind(synth(n, frame_time + last_offset, frames - last_offset),
                   LAMBDA s : [note |-> [n EXCEPT !.hung = @ \/ s.hung],
                               added |-> added \o s.added])
         ELSE [note |-> n, added |-> added]
    ELSE LET msg == Head(evs)
             offset == event_offset(msg, frame_time)
         IN  Bind(IF offset > last_offset
                  THEN synth(n, frame_time + last_offset, offset - last_offset)
                  ELSE [added |-> <<>>, hung |-> FALSE],
                  LAMBDA s :
                    Bind(process_event([n EXCEPT !.hung = @ \/ s.hung], msg),
                         LAMBDA n1 :
                            Bind(added \o s.added,
                                 LAMBDA mixed :
                                    generate_events(n1, frame_time, frames,
                                                    Tail(evs), offset, mixed))))

\* Note.generate: the note afterwards, what was mixed into the array, the
\* value returned, and (ghosts) what get_events did
Note_generate(n, frame_time, frames) ==
    Bind(get_events(n, frame_time, frames),
         LAMBDA got :
            LET n1 == got.note
                quiet == got.inside = <<>> /\ n1.next_events = <<>>
            IN  Bind(IF quiet
                     THEN IF n1.envelope = NoEnvelope
                          THEN [note |-> n1,
                                added |-> [i \in 1..frames |-> Silent]]
                          ELSE Bind(synth(n1, frame_time, frames),
                                    LAMBDA s :
                                        [note |-> [n1 EXCEPT !.hung = @ \/ s.hung],
                                         added |-> s.added])
                     ELSE generate_events(n1, frame_time, frames, got.inside,
                                          0, <<>>),
                     LAMBDA done :
                        [note |-> done.note, added |-> done.added,
                         ret |-> ~(quiet /\ n1.envelope = NoEnvelope),
                         inside |-> got.inside, underrun |-> got.underrun]))

\* the notes played, and the velocities and pitchwheel positions sent
NoteIds == {A4, C4}
MidiVelocities == {127, 64}
Pitches == {BendUp}
\* the window lengths the output asks for
WindowLengths == {1, MaxWindow}

\* Instrument.__init__ with note_cls = Saw: no notes yet; key is a ghost,
\* the one key of the keyboard that is played on this instrument
Instrument_init(shape, key) == [envelope |-> shape, notes |-> <<>>, key |-> key]

\* self.notes[k] = v
NotesSet(d, k, v) == [x \in DOMAIN d \cup {k} |-> IF x = k THEN v ELSE d[x]]

\* Instrument.add_note
Instrument_add_note(ins, msg) ==
    LET note == IF msg.note \in DOMAIN ins.notes THEN ins.notes[msg.note]
                ELSE Note_init(msg.note, ins.envelope)
    IN  [ins EXCEPT !.notes = NotesSet(@, msg.note, Note_add_event(note, msg))]

\* Instrument.add_pitchwheel
Instrument_add_pitchwheel(ins, msg) ==
    [ins EXCEPT !.notes = [k \in DOMAIN @ |-> Note_add_event(@[k], msg)]]

\* Instrument.generate: every note generates, those returning False are
\* deleted; calls is a ghost, what each Note.generate call did
Instrument_generate(ins, frame_time, frames) ==
    Bind([k \in DOMAIN ins.notes |->
            Bind(Note_generate(ins.notes[k], frame_time, frames),
                 LAMBDA call : call)],
         LAMBDA calls :
            LET kept == {k \in DOMAIN ins.notes : calls[k].ret}
            IN  [ins |-> [ins EXCEPT !.notes = [k \in kept |-> calls[k].note]],
                 calls |-> calls])

NoGen == [frame_time |-> 0, frames |-> 0, before |-> <<>>, calls |-> <<>>]

\* the times the next event may carry: not before the latest one
EventTimes == lastTime..MaxNoteTime

\* a note_on or note_off reaches the instrument (Instruments.add_event)
InstrAddNote ==
    /\ instrument # <<>>
    /\ addCount < MaxNoteEvents
    /\ \E note \in {instrument.key}, time \in EventTimes :
        \E msg \in {NoteOn(note, v, time) : v \in MidiVelocities}
                   \cup {NoteOff(note, time)} :
            /\ instrument' = Instrument_add_note(instrument, msg)
            /\ lastTime' = time
    /\ addCount' = addCount + 1
    /\ UNCHANGED <<frameTime, lastGen, exceptNote>>

\* a pitchwheel reaches the instrument (Instruments.add_event)
InstrAddPitchwheel ==
    /\ instrument # <<>>
    /\ addCount < MaxNoteEvents
    /\ \E pitch \in Pitches, time \in EventTimes :
        /\ instrument' = Instrument_add_pitchwheel(instrument,
                                                   Pitchwheel(pitch, time))
        /\ lastTime' = time
    /\ addCount' = addCount + 1
    /\ UNCHANGED <<frameTime, lastGen, exceptNote>>

\* the output asks for the next window (Instruments.generate)
InstrGenerate ==
    /\ instrument # <<>>
    /\ \E frames \in WindowLengths :
        /\ frameTime + frames <= MaxNoteTime + 1
        /\ \E r \in {Instrument_generate(instrument, frameTime, frames)} :
               /\ instrument' = r.ins
               /\ lastGen' = [frame_time |-> frameTime, frames |-> frames,
                              before |-> instrument.notes, calls |-> r.calls]
        /\ frameTime' = frameTime + frames
    /\ UNCHANGED <<addCount, lastTime, exceptNote>>

\* the shapes instruments are made with
NoteShapes ==
    {EnvelopeShape(One, a, 1, HalfLevel, MaxRelease) : a \in {0, MaxAttack}}

InitNote ==
    /\ QuietBut("note")
    /\ instrument \in {Instrument_init(shape, key) :
                            shape \in NoteShapes, key \in NoteIds}
    /\ frameTime = 0
    /\ addCount = 0
    /\ lastTime = 0
    /\ lastGen = NoGen
NextNote == InstrAddNote \/ InstrAddPitchwheel \/ InstrGenerate
SpecNote == InitNote /\ [][NextNote]_vars

\* ------------------------------------------------------------------------
\* MidiPlayer: the thread calling play and JACK's realtime thread
\* (pyeep/jackmidi.py)
\* ------------------------------------------------------------------------

\* most process cycles JACK runs
MaxCycles == 2
\* most messages marshalled to the hub whose passes are watched
MaxPassMsgs == 2

\* the thread of the component that calls MidiPlayer.play, and the realtime
\* thread in which JACK calls MidiPlayer.on_process
PlayerThreads == {"player", "jack"}

\* "with self.events_mutex:" is reached: threading.Lock.__enter__ is a
\* blocking acquire, the thread goes on once it has the lock
WithLock(t) ==
    /\ rtPc' = [rtPc EXCEPT ![t] = "acquire"]
    /\ UNCHANGED events_mutex
\* MidiPlayer.play: the event is built, then the lock is asked for
PlayCall ==
    /\ rtPc # <<>> /\ rtPc["player"] = "idle"
    /\ nextId <= MaxEvents
    /\ WithLock("player")
    /\ UNCHANGED <<rtCycles, rtClock, dueAt, rtCall, midiPort>>
    /\ UNCHANGED <<dlVars, exceptLock>>

\* MidiPlayer.on_process(frames): clear_buffer, then the lock is asked for
ProcessCall(frames) ==
    /\ rtPc # <<>> /\ rtPc["jack"] = "idle"
    /\ rtCycles < MaxCycles
    /\ rtCycles' = rtCycles + 1
    /\ rtCall' = [frames |-> frames, events |-> <<>>]
    /\ WithLock("jack")
    /\ UNCHANGED <<rtClock, dueAt, midiPort, dlVars, exceptLock>>

\* the blocking acquire returns: the lock was free and is now the thread's
LockAcquiredAnyway(t) ==
    /\ rtPc # <<>> /\ rtPc[t] = "acquire"
    /\ events_mutex' = t
    /\ rtPc' = [rtPc EXCEPT ![t] = "locked"]
    /\ UNCHANGED <<rtCycles, rtClock, dueAt, rtCall, midiPort>>
    /\ UNCHANGED <<dlVars, exceptLock>>
LockAcquired(t) ==
    /\ rtPc # <<>> /\ rtPc[t] = "acquire"
    /\ events_mutex = "none"
    /\ events_mutex' = t
    /\ rtPc' = [rtPc EXCEPT ![t] = "locked"]
    /\ UNCHANGED <<rtCycles, rtClock, dueAt, rtCall, midiPort>>
    /\ UNCHANGED <<dlVars, exceptLock>>

\* MidiPlayer.play under the lock: self.events.add_event(evt), then the
\* with block ends
PlayAdd(d) ==
    /\ rtPc # <<>> /\ rtPc["player"] = "locked"
    /\ events' = add_event(events, Event(nextId, d))
    /\ dueAt' = [i \in DOMAIN dueAt \cup {nextId} |->
                    IF i = nextId THEN rtClock + d ELSE dueAt[i]]
    /\ nextId' = nextId + 1
    /\ events_mutex' = "none"
    /\ rtPc' = [rtPc EXCEPT !["player"] = "idle"]
    /\ UNCHANGED <<rtCycles, rtClock, rtCall, midiPort>>
    /\ UNCHANGED <<sched, lastOp, exceptLock>>

\* MidiPlayer.on_process under the lock: self.events.clock_tick(frames),
\* then the with block ends
ProcessTick ==
    /\ rtPc # <<>> /\ rtPc["jack"] = "locked"
    /\ LET r == clock_tick(events, rtCall.frames)
       IN  /\ events' = r.events
           /\ rtCall' = [rtCall EXCEPT !.events = r.res]
    /\ rtClock' = rtClock + rtCall.frames
    /\ events_mutex' = "none"
    /\ rtPc' = [rtPc EXCEPT !["jack"] = "write"]
    /\ UNCHANGED <<rtCycles, dueAt, midiPort>>
    /\ UNCHANGED <<nextId, sched, lastOp, exceptLock>>

\* one write_midi_event(evt.frame_delay, evt.data) of a process cycle,
\* with the cycle it was written in
PortWrite(evt) ==
    [id |-> evt.id, offset |-> evt.frame_delay, cycle |-> rtCycles,
     start |-> rtClock - rtCall.frames, frames |-> rtCall.frames]

\* MidiPlayer.on_process after the lock: every event clock_tick returned
\* is written to the port, and the callback returns
ProcessWrite ==
    /\ rtPc # <<>> /\ rtPc["jack"] = "write"
    /\ midiPort' = midiPort \o [i \in 1..Len(rtCall.events) |->
                                  PortWrite(rtCall.events[i])]
    /\ rtCall' = NoProcess
    /\ rtPc' = [rtPc EXCEPT !["jack"] = "idle"]
    /\ UNCHANGED <<events_mutex, rtCycles, rtClock, dueAt>>
    /\ UNCHANGED <<dlVars, exceptLock>>

InitRt ==
    /\ QuietBut("lock")
    /\ events_mutex = "none"
    /\ rtPc = [t \in PlayerThreads |-> "idle"]
    /\ rtCycles = 0
    /\ rtClock = 0
    /\ dueAt = <<>>
    /\ rtCall = NoProcess
    /\ midiPort = <<>>
NextRt ==
    \/ PlayCall
    \/ \E frames \in 1..MaxFrames : ProcessCall(frames)
    \/ \E t \in PlayerThreads : LockAcquired(t)
    \/ \E d \in 0..MaxDelay : PlayAdd(d)
    \/ ProcessTick
    \/ ProcessWrite
SpecRt == InitRt /\ [][NextRt]_vars

\* ------------------------------------------------------------------------
\* One GtkHub, its dispatch passes taken one receive call at a time
\* ------------------------------------------------------------------------

\* the components of the hub: two registered from the start, one that
\* component code may add
PassComps == {"c1", "c2", "c3"}
PassMsg(n) == Msg("msg", n, None, None)

\* what the code of a component does with the hub while it runs
NoHubCall == [f |-> "none", c |-> None]
HubCalls(tbl, cleaned) ==
    {NoHubCall}
    \cup {[f |-> "remove", c |-> c] : c \in Range(tbl)}
    \cup {[f |-> "add", c |-> c] : c \in PassComps \ (Range(tbl) \cup cleaned)}

\* another thread hands a message to the hub: GtkHub.run_in_hub of
\* _hub_thread_receive, which is GLib.idle_add outside the hub's thread
MarshalReceive ==
    /\ passSent < MaxPassMsgs
    /\ GtkHub_run_in_hub("main") = "idle"
    /\ passSent' = passSent + 1
    /\ hubPending' = QueuePut(hubPending,
                              Callable("receive", None, PassMsg(passSent + 1)))
    /\ UNCHANGED <<hubTable, hubCleaned, pass, passLog>>
    /\ UNCHANGED exceptPass

\* the GTK main loop runs the oldest idle callback: _hub_thread_receive,
\* whose _dispatch_to_components takes list(self.components.values())
DispatchBegin ==
    /\ pass = NoPass
    /\ hubPending # <<>>
    /\ pass' = [msg |-> Head(hubPending).msg,
                list |-> DispatchTargets(hubTable, Head(hubPending).msg),
                idx |-> 1, added |-> {}]
    /\ hubPending' = Tail(hubPending)
    /\ UNCHANGED <<hubTable, hubCleaned, passLog, passSent>>
    /\ UNCHANGED exceptPass

\* Hub.add_component or Hub.remove_component called in the hub's thread:
\* run_in_hub runs _hub_thread_add_component or
\* _hub_thread_remove_component (cleanup, then del) at once
HubCallNow(call) ==
    /\ GtkHub_run_in_hub("gtk") = "now"
    /\ hubTable' = CASE call.f = "remove" -> dict_del(hubTable, call.c)
                     [] call.f = "add" -> DictSet(hubTable, call.c)
                     [] OTHER -> hubTable
    /\ hubCleaned' = IF call.f = "remove" THEN hubCleaned \cup {call.c}
                     ELSE hubCleaned

\* the next c.receive(msg) of the pass; the component's code may add or
\* remove a component of the hub before it returns
DispatchReceive(call) ==
    /\ pass # NoPass
    /\ pass.idx <= Len(pass.list)
    /\ call \in HubCalls(hubTable, hubCleaned)
    /\ passLog' = Append(passLog, [c |-> pass.list[pass.idx],
                                   m |-> Key(pass.msg),
                                   gone |-> pass.list[pass.idx] \in hubCleaned,
                                   late |-> pass.list[pass.idx] \in pass.added])
    /\ HubCallNow(call)
    /\ pass' = [pass EXCEPT !.idx = @ + 1,
                            !.added = IF call.f = "add" THEN @ \cup {call.c}
                                      ELSE @]
    /\ UNCHANGED <<hubPending, passSent>>
    /\ UNCHANGED exceptPass

\* the for loop of _dispatch_to_components is over
DispatchEnd ==
    /\ pass # NoPass
    /\ pass.idx > Len(pass.list)
    /\ pass' = NoPass
    /\ UNCHANGED <<hubTable, hubCleaned, hubPending, passLog, passSent>>
    /\ UNCHANGED exceptPass

\* code running in the hub's thread between two callbacks (a signal
\* handler of a GTK component) adds or removes a component
HubCodeCall(call) ==
    /\ pass = NoPass
    /\ call \in HubCalls(hubTable, hubCleaned) \ {NoHubCall}
    /\ HubCallNow(call)
    /\ UNCHANGED <<hubPending, pass, passLog, passSent>>
    /\ UNCHANGED exceptPass

InitPass ==
    /\ QuietBut("pass")
    /\ hubTable = <<"c1", "c2">>
    /\ hubCleaned = {}
    /\ hubPending = <<>>
    /\ pass = NoPass
    /\ passLog = <<>>
    /\ passSent = 0
NextPass ==
    \/ MarshalReceive
    \/ DispatchBegin
    \/ \E call \in HubCalls(hubTable, hubCleaned) : DispatchReceive(call)
    \/ DispatchEnd
    \/ \E call \in HubCalls(hubTable, hubCleaned) : HubCodeCall(call)
SpecPass == InitPass /\ [][NextPass]_vars

\* ------------------------------------------------------------------------
\* AIOHub: leaving the event loop
\* ------------------------------------------------------------------------

\* AIOHub.run, asyncio.run after aio_main has returned: the callbacks still
\* on the loop's ready queue are run before the loop is closed; by then
\* self.loop is None
AioLateCallback ==
    /\ pc["aio"] = "ending"
    /\ loop_ready # <<>>
    /\ Head(loop_ready).f # "on_done"
    /\ loop_ready' = Tail(loop_ready)
    /\ SetHubState(ExecCallable(HubState, "aio", "aio", Head(loop_ready), loopSet))
    /\ owed' = Settled(owed, Head(loop_ready))
    /\ UNCHANGED <<hubs, command_queue, loopSet, pre_loop_queue, idle_queue, pc,
                   appMsg, appIdx, rih, made, nextMsg, envVars, dlVars, auxVars>>

\* an application of both hubs whose components' run() may return at any
\* time and whose GTK component may add AIO components while it runs
InitLeave ==
    /\ BusInit /\ DLInit /\ AuxIdle
    /\ faulty = {} /\ runMode = "free" /\ addQuota = 0 /\ intQuota = 0
    /\ quota = 0 /\ removeQuota = 0

NextLeave ==
    \/ \E c \in Few : MainAddComponent(c)
    \/ MainInit
    \/ AppNextCommand
    \/ AppHubReceive
    \/ AppHubReceiveEnd
    \/ \E c \in Comps : AddComponentBegin("gtk", c)
    \/ AddComponentEnd("gtk")
    \/ AddComponentNotify("gtk")
    \/ \E task \in tasks : AioTaskReturns(task)
    \/ AioOnDone
    \/ AioWakeup
    \/ GtkIdle
    \/ AioSetLoop
    \/ AioDrain
    \/ AioDrainEmpty
    \/ AioRemoveHub
    \/ AioLateCallback
    \/ \E h \in HubTags : HubThreadEnd(h)
    \/ \E h \in HubTags : AppJoin(h)
    \/ AioCallback

SpecLeave == InitLeave /\ [][NextLeave]_vars

\* ------------------------------------------------------------------------
\* SimpleActiveComponent.set_active
\* ------------------------------------------------------------------------

\* most set_active calls made on the component
MaxSetCalls == 4

ComponentActiveStateChanged(value) ==
    [kind |-> "ComponentActiveStateChanged", value |-> value]

\* SimpleActiveComponent.set_active (body): the state and the messages
\* sent after the call
set_active_always(state, sent, x) ==
    [active |-> x, sent |-> Append(sent, ComponentActiveStateChanged(x))]
set_active(state, sent, x) ==
    IF x = state
    THEN [active |-> state, sent |-> sent]
    ELSE [active |-> x, sent |-> Append(sent, ComponentActiveStateChanged(x))]

\* the body of set_active runs in the hub's thread
RunSetActive(x) ==
    LET r == set_active(active, stateMsgs, x)
    IN  /\ active' = r.active
        /\ stateMsgs' = r.sent
        /\ setLog' = Append(setLog, [x |-> x, before |-> active,
                                     sentBefore |-> stateMsgs])

\* set_active(x) called from thread t: the export wrapper hands the body
\* to hub.run_in_hub, which runs it at once in the hub's thread and
\* marshals it from any other
SetActiveCall(t, x) ==
    /\ setCalls < MaxSetCalls
    /\ setCalls' = setCalls + 1
    /\ IF GtkHub_run_in_hub(t) = "now"
       THEN /\ RunSetActive(x)
            /\ UNCHANGED setQueue
       ELSE /\ setQueue' = QueuePut(setQueue, x)
            /\ UNCHANGED <<active, stateMsgs, setLog>>
    /\ UNCHANGED exceptActive

\* the hub's main loop runs the oldest marshalled set_active
SetActiveIdle ==
    /\ setQueue # <<>>
    /\ RunSetActive(Head(setQueue))
    /\ setQueue' = Tail(setQueue)
    /\ UNCHANGED setCalls
    /\ UNCHANGED exceptActive

InitActive ==
    /\ QuietBut("active")
    /\ active \in BOOLEAN
    /\ setQueue = <<>>
    /\ stateMsgs = <<>>
    /\ setLog = <<>>
    /\ setCalls = 0
NextActive ==
    \/ \E t \in {"gtk", "aio"}, x \in BOOLEAN : SetActiveCall(t, x)
    \/ SetActiveIdle
SpecActive == InitActive /\ [][NextActive]_vars

\* ------------------------------------------------------------------------
\* TopComponent / BottomComponent: reading from and writing to the peer
\* ------------------------------------------------------------------------

\* most lines the peer writes, most messages other components send
MaxLines == 2
MaxLocal == 1

\* the bridge component, as the src of a message
Bridge == SrcComponent("bridge")
\* time.time() when the bridge sends
BridgeNow == 1

\* a line on the socket: a JSON object, another JSON value, or no JSON
ObjectLine(d) == [kind |-> "object", d |-> d]
ArrayLine == [kind |-> "array", d |-> <<>>]
GarbageLine == [kind |-> "garbage", d |-> <<>>]
\* readline() returns b"" at end of file
EofLine == [kind |-> "eof", d |-> <<>>]

\* the line the peer's bridge writes for a SetPower message of its own
\* process
PeerMsg(id) == Message_init("SetPower", NoTs, SrcComponent("remote"), NoStr, NoStr, id)
GoodLine(id) == ObjectLine(as_jsonable(PeerMsg(id)))
\* the same line without its type tag, with a class that does not exist,
\* and without the argument the class requires
UntaggedLine(id) ==
    ObjectLine(dict_without(as_jsonable(PeerMsg(id)), {"__module__", "__class__"}))
UnknownLine(id) ==
    ObjectLine([as_jsonable(PeerMsg(id)) EXCEPT !["__class__"] = "NoSuchClass"])
BadArgsLine(id) ==
    ObjectLine(dict_without(as_jsonable(PeerMsg(id)), {"power"}))
PeerLines(id) ==
    {GoodLine(id), UntaggedLine(id), UnknownLine(id), BadArgsLine(id),
     ArrayLine, GarbageLine}
IsGood(line) == \E id \in 1..MaxLines : line = GoodLine(id)

\* json.loads(line): JSONDecodeError for a line that is no JSON
JSONDecodeError == [cls |-> "JSONDecodeError"]
json_loads(line) == IF line.kind = "garbage" THEN JSONDecodeError ELSE line

\* Jsonable.jsonable_class(jsonable) for any JSON value: the pop of a value
\* that is no dict raises, which is caught and gives None
jsonable_class_of(value) ==
    IF value.kind = "object" THEN jsonable_class(value.d) ELSE NoClass

\* one turn of the loop of _read_messages on a line that is not the end of
\* file: what became of the line, and the message to send
ReadOutcome(line) ==
    LET jsonable == json_loads(line)
    IN  IF jsonable = JSONDecodeError
        THEN [end |-> "raised", msg |-> <<>>]
        ELSE LET cls == jsonable_class_of(jsonable)
             IN  IF cls = NoClass
                 THEN [end |-> "logged", msg |-> <<>>]
                 ELSE LET fields == ("src" :> Bridge)
                                    @@ dict_without(jsonable.d,
                                                    {"__module__", "__class__", "src"})
                          msg == Instantiate(cls, fields)
                      IN  IF msg = TypeError
                          THEN [end |-> "logged", msg |-> <<>>]
                          ELSE [end |-> "sent", msg |-> msg]

\* run(): is a message that is not Shutdown written to the peer
ForwardsOwn(side, msg, connected) ==
    IF side = "top"
    THEN connected
    ELSE msg.cls \notin {"NewComponent", "ComponentActiveStateChanged"}
Forwards(side, msg, connected) ==
    IF side = "top"
    THEN msg.src # Bridge /\ connected
    ELSE /\ msg.cls \notin {"NewComponent", "ComponentActiveStateChanged"}
         /\ msg.src # Bridge

\* the connection is made: TopComponent.on_server_connect, or the start of
\* BottomComponent.run; _read_messages is started as a task
BridgeConnect ==
    /\ brReader = "none"
    /\ brReader' = "reading"
    /\ brRun' = IF brSide = "bottom" THEN "running" ELSE brRun
    /\ UNCHANGED <<brSide, sockIn, sockOut, peerSent, brQueue, busSent, busIdx,
                   localSent, brSeen, brLogged>>
    /\ UNCHANGED exceptBridge

\* the peer writes a line
PeerWrites(line) ==
    /\ brReader # "none"
    /\ peerSent < MaxLines
    /\ IF sockIn = <<>> THEN TRUE ELSE sockIn[Len(sockIn)] # EofLine
    /\ peerSent' = peerSent + 1
    /\ sockIn' = Append(sockIn, line)
    /\ UNCHANGED <<brSide, sockOut, brQueue, busSent, busIdx, localSent,
                   brReader, brRun, brSeen, brLogged>>
    /\ UNCHANGED exceptBridge

\* the peer closes the connection
PeerCloses ==
    /\ brReader # "none"
    /\ IF sockIn = <<>> THEN TRUE ELSE sockIn[Len(sockIn)] # EofLine
    /\ EofLine \notin Range(brSeen)
    /\ sockIn' = Append(sockIn, EofLine)
    /\ UNCHANGED <<brSide, sockOut, peerSent, brQueue, busSent, busIdx, localSent,
                   brReader, brRun, brSeen, brLogged>>
    /\ UNCHANGED exceptBridge

\* _read_messages: readline() returns; the line is decoded and the message
\* sent with Component.send; at the end of file, and when an exception
\* leaves the loop, the finally clause calls self.receive(Shutdown())
ReadLine ==
    /\ brReader = "reading"
    /\ sockIn # <<>>
    /\ sockIn' = Tail(sockIn)
    /\ brSeen' = Append(brSeen, Head(sockIn))
    /\ LET line == Head(sockIn)
           out == IF line = EofLine THEN [end |-> "eof", msg |-> <<>>]
                  ELSE ReadOutcome(line)
       IN  /\ brReader' = IF out.end \in {"eof", "raised"} THEN "ended"
                          ELSE "reading"
           /\ brQueue' = IF out.end \in {"eof", "raised"}
                         THEN Append(brQueue,
                                     Message_init("Shutdown", NoTs, SrcNone,
                                                  NoStr, NoStr, NoArg))
                         ELSE brQueue
           /\ busSent' = IF out.end = "sent"
                         THEN Hub_send(busSent, Stamp(Bridge, out.msg, BridgeNow))
                         ELSE busSent
           /\ brLogged' = IF out.end = "logged" THEN Append(brLogged, line)
                          ELSE brLogged
    /\ UNCHANGED <<brSide, sockOut, peerSent, busIdx, localSent, brRun>>
    /\ UNCHANGED exceptBridge

\* the bus delivers to the bridge a message the bridge has sent: the
\* AIOHub's dispatch calls AIOComponent.receive, which queues it
BusDelivers ==
    /\ busIdx < Len(busSent)
    /\ busIdx' = busIdx + 1
    /\ brQueue' = Append(brQueue, busSent[busIdx + 1])
    /\ UNCHANGED <<brSide, sockIn, sockOut, peerSent, busSent, localSent,
                   brReader, brRun, brSeen, brLogged>>
    /\ UNCHANGED exceptBridge

\* the messages of other components of the bridge's process
LocalMsgs ==
    {Message_init("SetPower", BridgeNow, SrcComponent("a"), NoStr, NoStr,
                  MaxLines + 1),
     Message_init("NewComponent", BridgeNow, SrcComponent("a"), NoStr, NoStr, NoArg),
     Message_init("Shutdown", BridgeNow, SrcNone, NoStr, NoStr, NoArg)}

\* the bus delivers to the bridge a message of another component
LocalDelivers(msg) ==
    /\ brSide # "none"
    /\ brSide = "bottom" => brReader # "none"
    /\ localSent < MaxLocal
    /\ localSent' = localSent + 1
    /\ brQueue' = Append(brQueue, msg)
    /\ UNCHANGED <<brSide, sockIn, sockOut, peerSent, busSent, busIdx,
                   brReader, brRun, brSeen, brLogged>>
    /\ UNCHANGED exceptBridge

\* run(): next_message() returns; Shutdown ends the loop (for a
\* TopComponent after the child has been terminated), any other message is
\* written to the peer unless it is the bridge's own
RunStep ==
    /\ brRun = "running"
    /\ brQueue # <<>>
    /\ brQueue' = Tail(brQueue)
    /\ LET msg == Head(brQueue)
       IN  IF msg.cls = "Shutdown"
           THEN /\ brRun' = "returned"
                /\ UNCHANGED sockOut
           ELSE /\ sockOut' = IF Forwards(brSide, msg, brReader # "none")
                              THEN Append(sockOut, ObjectLine(as_jsonable(msg)))
                              ELSE sockOut
                /\ UNCHANGED brRun
    /\ UNCHANGED <<brSide, sockIn, peerSent, busSent, busIdx, localSent,
                   brReader, brSeen, brLogged>>
    /\ UNCHANGED exceptBridge

InitBridge ==
    /\ QuietBut("bridge")
    /\ brSide \in {"top", "bottom"}
    /\ sockIn = <<>> /\ sockOut = <<>> /\ peerSent = 0
    /\ brQueue = <<>> /\ busSent = <<>> /\ busIdx = 0 /\ localSent = 0
    /\ brReader = "none"
    /\ brRun = IF brSide = "top" THEN "running" ELSE "none"
    /\ brSeen = <<>> /\ brLogged = <<>>
NextBridge ==
    \/ BridgeConnect
    \/ \E id \in 1..MaxLines : \E line \in PeerLines(id) :
          peerSent + 1 = id /\ PeerWrites(line)
    \/ PeerCloses
    \/ ReadLine
    \/ BusDelivers
    \/ \E msg \in LocalMsgs : LocalDelivers(msg)
    \/ RunStep
SpecBridge == InitBridge /\ [][NextBridge]_vars

\* ------------------------------------------------------------------------
\* TopComponent: Shutdown and the child process
\* ------------------------------------------------------------------------

\* _killer: the attempt from which kill() replaces terminate()
KillAfter == 10
\* most attempts of _killer that are followed
MaxAttempts == 12

\* _killer: what the attempt sends
SignalTerminate(n) == "terminate"
Signal(n) == IF n < KillAfter THEN "terminate" ELSE "kill"

\* run(): the server is started and the child created; the message loop
\* is entered
TopStart ==
    /\ topPc = "start"
    /\ proc' = "Process"
    /\ child' = "running"
    /\ topPc' = "loop"
    /\ UNCHANGED <<stubborn, returncode, attempt, signals, topShutdown>>
    /\ UNCHANGED exceptKill

\* the hub delivers Shutdown: AIOComponent.receive queues it
TopReceiveShutdown ==
    /\ topPc \in {"start", "loop"}
    /\ ~topShutdown
    /\ topShutdown' = TRUE
    /\ UNCHANGED <<proc, child, stubborn, returncode, attempt, signals, topPc>>
    /\ UNCHANGED exceptKill

\* the child ends by itself
ChildExits ==
    /\ child = "running"
    /\ child' = "exited"
    /\ UNCHANGED <<proc, stubborn, returncode, attempt, signals, topShutdown,
                   topPc>>
    /\ UNCHANGED exceptKill

\* the child dies of a signal it was sent: of SIGKILL always, of SIGTERM
\* unless it ignores it
ChildKilled ==
    /\ child = "running"
    /\ \/ "kill" \in Range(signals)
       \/ "terminate" \in Range(signals) /\ ~stubborn
    /\ child' = "exited"
    /\ UNCHANGED <<proc, stubborn, returncode, attempt, signals, topShutdown,
                   topPc>>
    /\ UNCHANGED exceptKill

\* asyncio learns that the child has exited: proc.returncode is set and
\* proc.wait() is done
ChildReaped ==
    /\ child = "exited"
    /\ returncode = "None"
    /\ returncode' = "set"
    /\ UNCHANGED <<proc, child, stubborn, attempt, signals, topShutdown, topPc>>
    /\ UNCHANGED exceptKill

\* run(): next_message() returns Shutdown; with a child,
\* _terminate_process gathers _killer() and proc.wait()
TopTakesShutdown ==
    /\ topPc = "loop"
    /\ topShutdown
    /\ topShutdown' = FALSE
    /\ topPc' = IF proc # "None" THEN "killer" ELSE "returned"
    /\ UNCHANGED <<proc, child, stubborn, returncode, attempt, signals>>
    /\ UNCHANGED exceptKill

\* _killer: one turn of its loop, then the sleep; the loop ends when
\* proc.returncode is set
KillerStep ==
    /\ topPc = "killer"
    /\ IF returncode = "None"
       THEN /\ attempt < MaxAttempts
            /\ signals' = Append(signals, Signal(attempt))
            /\ attempt' = attempt + 1
            /\ UNCHANGED topPc
       ELSE /\ topPc' = "wait"
            /\ UNCHANGED <<signals, attempt>>
    /\ UNCHANGED <<proc, child, stubborn, returncode, topShutdown>>
    /\ UNCHANGED exceptKill

\* _terminate_process: the gather is done; self.returncode is stored, the
\* finally clause clears self.proc, and run() leaves its loop and returns
TerminateDone ==
    /\ topPc = "wait"
    /\ returncode # "None"
    /\ proc' = "None"
    /\ topPc' = "returned"
    /\ UNCHANGED <<child, stubborn, returncode, attempt, signals, topShutdown>>
    /\ UNCHANGED exceptKill

InitKill ==
    /\ QuietBut("kill")
    /\ proc = "None" /\ child = "unstarted" /\ stubborn \in BOOLEAN
    /\ returncode = "None" /\ attempt = 0 /\ signals = <<>>
    /\ topShutdown = FALSE /\ topPc = "start"
NextKill ==
    \/ TopStart
    \/ TopReceiveShutdown
    \/ ChildExits
    \/ ChildKilled
    \/ ChildReaped
    \/ TopTakesShutdown
    \/ KillerStep
    \/ TerminateDone
\* the asyncio loop runs every coroutine that can go on, the kernel ends a
\* process that was sent a signal it does not ignore
KillFairness ==
    /\ WF_vars(TopStart) /\ WF_vars(TopTakesShutdown) /\ WF_vars(KillerStep)
    /\ WF_vars(TerminateDone) /\ WF_vars(ChildReaped) /\ WF_vars(ChildKilled)
SpecKill == InitKill /\ [][NextKill]_vars /\ KillFairness

\* ------------------------------------------------------------------------
\* DeltaList: what the claims speak of
\* ------------------------------------------------------------------------

\* absolute delay of the event at position i: the sum of frame_delay from the
\* head of the queue through position i
RECURSIVE AbsDelay(_, _)
AbsDelay(evs, i) == IF i = 0 THEN 0 ELSE AbsDelay(evs, i - 1) + evs[i].frame_delay

\* position of the event object id in a queue that holds it
PosOf(evs, id) == CHOOSE i \in 1..Len(evs) : evs[i].id = id

IdsOf(evs) == {evs[i].id : i \in 1..Len(evs)}

DistinctIds(evs) == Cardinality(IdsOf(evs)) = Len(evs)

\* C5: clock_tick(n) returns exactly the queued events whose absolute delay
\* (frames from now at which they were scheduled) is < n, each once, in
\* ascending order of absolute delay; the events due at n or later, and only
\* they, stay queued.
C5_TickReturnsDue ==
    lastOp.op = "tick" =>
        LET res == lastOp.res
            sb == lastOp.schedBefore
        IN  /\ IdsOf(res) = {id \in DOMAIN sb : sb[id] < lastOp.n}
            /\ IdsOf(lastOp.before) = DOMAIN sb
            /\ DistinctIds(res)
            /\ \A i, j \in 1..Len(res) : i < j => sb[res[i].id] <= sb[res[j].id]
            /\ IdsOf(events) = {id \in DOMAIN sb : sb[id] >= lastOp.n}
            /\ DistinctIds(events)

\* a tick that returned two events and kept one whose delay was exactly n
C5_Witness ==
    /\ lastOp.op = "tick"
    /\ Len(lastOp.res) >= 2
    /\ \E id \in DOMAIN lastOp.schedBefore :
          /\ lastOp.schedBefore[id] = lastOp.n
          /\ id \in IdsOf(events)

\* C6: after clock_tick(n) every event left in the queue has its absolute
\* delay (sum of frame_delay from the head) reduced by exactly n.
C6_TickShiftsRemaining ==
    lastOp.op = "tick" =>
        \A i \in 1..Len(events) :
            /\ events[i].id \in IdsOf(lastOp.before)
            /\ AbsDelay(events, i) =
                  AbsDelay(lastOp.before, PosOf(lastOp.before, events[i].id))
                  - lastOp.n

\* a tick of n > 0 frames that returned an event and left two in the queue
C6_Witness ==
    /\ lastOp.op = "tick"
    /\ lastOp.n > 0
    /\ Len(lastOp.res) >= 1
    /\ Len(events) >= 2

\* a tick of n > 0 frames that returned nothing and left events in the queue
C6_WitnessNoneDue ==
    /\ lastOp.op = "tick"
    /\ lastOp.n > 0
    /\ lastOp.res = <<>>
    /\ Len(events) >= 1

\* C7: after add_event(e) with delay d the sum of frame_delay from the head
\* through e is d, and every event queued before keeps its absolute delay.
C7_AddKeepsDelays ==
    lastOp.op = "add" =>
        /\ lastOp.id \in IdsOf(events)
        /\ AbsDelay(events, PosOf(events, lastOp.id)) = lastOp.n
        /\ \A i \in 1..Len(lastOp.before) :
              /\ lastOp.before[i].id \in IdsOf(events)
              /\ AbsDelay(events, PosOf(events, lastOp.before[i].id)) =
                    AbsDelay(lastOp.before, i)

\* an insertion in the middle of the queue, with a non-zero delay
C7_Witness ==
    /\ lastOp.op = "add"
    /\ lastOp.n > 0
    /\ Len(events) >= 3
    /\ PosOf(events, lastOp.id) > 1
    /\ PosOf(events, lastOp.id) < Len(events)

\* C8: each event returned by clock_tick(n) carries as frame_delay its
\* absolute delay before the tick, so 0 <= frame_delay < n, and the returned
\* list is sorted by frame_delay.
C8_ReturnedOffsets ==
    lastOp.op = "tick" =>
        LET res == lastOp.res
        IN  /\ \A i \in 1..Len(res) :
                  /\ res[i].id \in IdsOf(lastOp.before)
                  /\ res[i].frame_delay =
                        AbsDelay(lastOp.before, PosOf(lastOp.before, res[i].id))
                  /\ 0 <= res[i].frame_delay
                  /\ res[i].frame_delay < lastOp.n
            /\ \A i, j \in 1..Len(res) :
                  i < j => res[i].frame_delay <= res[j].frame_delay

\* a tick that returned two events, the second later than the first
C8_Witness ==
    /\ lastOp.op = "tick"
    /\ Len(lastOp.res) >= 2
    /\ lastOp.res[1].frame_delay > 0
    /\ lastOp.res[2].frame_delay > lastOp.res[1].frame_delay

\* C9: events with equal absolute delay are queued, and returned by
\* clock_tick, in the order in which they were added (identities are handed
\* out in the order of the add_event calls).
C9_EqualDelaysFifo ==
    /\ \A i, j \in 1..Len(events) :
          (i < j /\ AbsDelay(events, i) = AbsDelay(events, j))
              => events[i].id < events[j].id
    /\ lastOp.op = "tick" =>
          \A i, j \in 1..Len(lastOp.res) :
              (i < j /\ lastOp.schedBefore[lastOp.res[i].id]
                        = lastOp.schedBefore[lastOp.res[j].id])
                  => lastOp.res[i].id < lastOp.res[j].id

\* two events of equal non-zero delay, added around an earlier one, were
\* returned by one tick
C9_Witness ==
    /\ lastOp.op = "tick"
    /\ \E i, j \in 1..Len(lastOp.res) :
          /\ i < j
          /\ lastOp.res[i].frame_delay = lastOp.res[j].frame_delay
          /\ lastOp.res[i].frame_delay > 0

\* ------------------------------------------------------------------------
\* Message bus: what the claims speak of
\* ------------------------------------------------------------------------

\* position of component c in the order of registration
RegPos(c) == CHOOSE i \in 1..Len(regOrder) : regOrder[i] = c

\* the messages component c has received in hub h: positions in the hub's log
ReceivedAt(h, c, kind, id) ==
    {i \in 1..Len(recvLog[h]) :
        /\ recvLog[h][i].c = c
        /\ recvLog[h][i].m.kind = kind
        /\ recvLog[h][i].m.id = id}

\* C1: when a component sends M1 and then M2 (message identities grow in the
\* order of the send calls), every component of another hub that has received
\* both has received M1 before M2.
C1_SendOrderKept ==
    \A h \in HubTags :
        \A i, j \in 1..Len(recvLog[h]) :
            LET ri == recvLog[h][i]
                rj == recvLog[h][j]
            IN  ( /\ ri.c = rj.c
                  /\ ri.m.kind = "msg" /\ rj.m.kind = "msg"
                  /\ ri.m.src = rj.m.src
                  /\ HubOf(ri.m.src) # h
                  /\ ri.m.id < rj.m.id ) => i < j

\* b1, on the AIOHub, has received two messages the component a sent from the
\* GtkHub
C1_Witness ==
    /\ ReceivedAt("aio", "b1", "msg", 1) # {}
    /\ ReceivedAt("aio", "b1", "msg", 2) # {}

\* the same while the AIOHub changes over: M1 was run from pre_loop_queue,
\* M2 waits as a call_soon_threadsafe callback, aio_main still drains
C1_WitnessSwitching ==
    /\ pc["aio"] = "drain"
    /\ ReceivedAt("aio", "b1", "msg", 1) # {}
    /\ \E i \in 1..Len(loop_ready) :
          loop_ready[i].f = "receive" /\ loop_ready[i].msg.id = 2

\* the App thread is back in main_loop with nothing to do, and the AIOHub
\* runs its loop with no callback left
Quiescent ==
    /\ pc["main"] = "loop"
    /\ command_queue = <<>>
    /\ pc["aio"] = "wait"
    /\ loop_ready = <<>>

TimesDispatched(h, k) ==
    Cardinality({i \in 1..Len(dispatched[h]) : dispatched[h][i] = k})

\* C2: every message given to App.send while the AIOHub is registered and its
\* thread runs is dispatched in that hub exactly once: never twice, and, once
\* the App thread and the hub's loop have no work left, once.
C2_NoMessageLost ==
    /\ \A k \in Range(dispatched["aio"]) : TimesDispatched("aio", k) = 1
    /\ Quiescent => owed = {}

\* C3: a direct call of a hub-restricted method raises exactly when the
\* calling thread is not the thread of the component's hub, and then nothing
\* of the program's state changes; from the hub's own thread the body runs:
\* send queues the message for the App, receive hands the message to the
\* component, cleanup is carried out.
C3_WrongThreadRaises ==
    [][lastCall'.n # lastCall.n =>
        LET call == lastCall'
            h == HubOf(call.c)
        IN  /\ call.raised = ~running_in_hub(call.thread, h)
            /\ call.raised =>
                  UNCHANGED <<hubs, command_queue, components, loopSet,
                              pre_loop_queue, loop_ready, tasks, idle_queue,
                              pc, appMsg, appIdx, rih, made, nextMsg, recvLog,
                              regOrder, cleanupLog>>
            /\ (~call.raised /\ call.method = "send") =>
                  /\ Len(command_queue') = Len(command_queue) + 1
                  /\ command_queue'[Len(command_queue')].msg.src = call.c
            /\ (~call.raised /\ call.method = "receive") =>
                  recvLog'[h] = Append(recvLog[h], Received(call.c, DirectMsg(call.n)))
            /\ (~call.raised /\ call.method = "cleanup") =>
                  cleanupLog' = Append(cleanupLog, call.c)
    ]_vars

\* the GtkHub's thread called a restricted method of a component of the
\* running AIOHub and got the RuntimeError
C3_Witness ==
    /\ lastCall.raised
    /\ lastCall.thread = "gtk"
    /\ HubOf(lastCall.c) = "aio"
    /\ pc["aio"] = "wait"

\* a task of the AIOHub called receive of a component of its own hub, and the
\* body ran
C3_WitnessOwnThread ==
    /\ ~lastCall.raised
    /\ lastCall.thread = "aio"
    /\ lastCall.method = "receive"
    /\ \E i \in 1..Len(recvLog["aio"]) : recvLog["aio"][i].m.kind = "direct"

\* C4: on the framework's own paths (add_component, remove_component and
\* receive, called from any thread) a callable of a hub only ever runs in that
\* hub's thread: check_hub never fails there.
C4_NoAffinityFailure == affinityFailures = {}

\* both hubs have run receive callables handed over by the App thread, and the
\* AIOHub has, in its own thread, run a removal another thread asked for
C4_Witness ==
    /\ cleanupLog # <<>>
    /\ HubOf(cleanupLog[1]) = "aio"
    /\ pc["aio"] = "wait"
    /\ pc["gtk"] = "running"
    /\ removeQuota = 0
    /\ recvLog["aio"] # <<>>
    /\ recvLog["gtk"] # <<>>

\* C10: within one hub a broadcast message reaches the hub's components in
\* the order in which they were registered.
C10_RegistrationOrder ==
    \A h \in HubTags :
        \A i, j \in 1..Len(recvLog[h]) :
            (i < j /\ recvLog[h][i].m = recvLog[h][j].m)
                => /\ recvLog[h][i].c \in Range(regOrder)
                   /\ recvLog[h][j].c \in Range(regOrder)
                   /\ RegPos(recvLog[h][i].c) < RegPos(recvLog[h][j].c)

\* a message of component a has reached b1 and then b2
C10_Witness ==
    \E i, j \in 1..Len(recvLog["aio"]) :
        /\ i < j
        /\ recvLog["aio"][i].m = recvLog["aio"][j].m
        /\ recvLog["aio"][i].m.kind = "msg"
        /\ recvLog["aio"][i].c = "b1"
        /\ recvLog["aio"][j].c = "b2"

\* C11: App.add_component constructs a component only when a hub with the
\* class's tag is registered; when none is, it raises and nothing of the App's
\* or the hubs' state changes: nothing is registered or queued, no
\* NewComponent is enqueued.
C11_MissingHubRaises ==
    [][\A c \in Comps :
          /\ (c \in made' /\ c \notin made) => HubOf(c) \in Range(hubs)
          /\ (c \in noHub' /\ c \notin noHub) =>
                /\ HubOf(c) \notin Range(hubs)
                /\ UNCHANGED <<hubs, command_queue, components, pre_loop_queue,
                               loop_ready, idle_queue, tasks, made, regOrder,
                               recvLog, rih, pc>>
    ]_vars

\* GTK code asked for an AIO component after the AIOHub had been removed from
\* the App: the call raised
C11_Witness ==
    /\ "b1" \in noHub
    /\ "aio" \notin Range(hubs)
    /\ "b1" \notin made
    /\ pc["gtk"] = "running"

\* C12: whenever a component receives NewComponent with src = c, c is in the
\* components table of its own hub.
C12_NewComponentAfterRegistration ==
    [][\A h \in HubTags :
          Len(recvLog'[h]) > Len(recvLog[h]) =>
             \A i \in (Len(recvLog[h]) + 1)..Len(recvLog'[h]) :
                recvLog'[h][i].m.kind = "new" =>
                   recvLog'[h][i].m.src \in Range(components[HubOf(recvLog'[h][i].m.src)])
    ]_vars

\* C13: when _hub_thread_remove_component is run for a component that is in
\* the hub's table and whose cleanup() returns, cleanup() runs while the
\* component is still in the table, and the component is out of the table when
\* the call ends.
C13_CleanupBeforeDelete ==
    \A r \in removals :
        (r.before /\ r.error = "none") => (r.cleaned /\ r.during /\ ~r.after)

\* b1 was registered in the AIOHub, GTK code asked for its removal, and the
\* AIOHub's thread has carried it out
C13_Witness ==
    /\ \E r \in removals : r.c = "b1" /\ r.before /\ ~r.after
    /\ "b1" \notin Range(components["aio"])
    /\ removeQuota = 0
    /\ HasTask(tasks, "b1")

\* C14: a _hub_thread_remove_component call for a component that is not in
\* the hub's table raises nothing, leaves the table alone and does not call
\* cleanup().
C14_RemoveIdempotent ==
    \A r \in removals :
        ~r.before => (r.error = "none" /\ ~r.cleaned /\ ~r.after)

\* C15: a component handed to its hub more than once has one entry in the
\* hub's table and, in the AIOHub, at most one running task.
C15_AddIdempotent ==
    \A c \in Comps :
        /\ Cardinality({i \in 1..Len(components[HubOf(c)]) :
                            components[HubOf(c)][i] = c}) <= 1
        /\ Cardinality(TasksOf(tasks, c)) <= 1

\* C16: when a hub dispatches a message with a dst, the component of that
\* name, if the hub's table has it, is the only one whose receive is called;
\* if the table has no such name no receive is called; either way nothing
\* else of the hub's state changes and no error is raised.
C16_AddressedDelivery ==
    [][\A h \in HubTags :
          Len(dispatched'[h]) = Len(dispatched[h]) + 1 =>
             LET k == dispatched'[h][Len(dispatched'[h])]
             IN  k.dst # None =>
                   /\ recvLog'[h] =
                        IF k.dst \in Range(components[h])
                        THEN Append(recvLog[h], [c |-> k.dst, m |-> k])
                        ELSE recvLog[h]
                   /\ UNCHANGED <<components, tasks, regOrder, removals,
                                  affinityFailures, cleanupLog>>
    ]_vars

\* the AIOHub, with b1 and b2 registered, has delivered a message addressed
\* to b1, and has dispatched a message addressed to a name nobody has
C16_Witness ==
    /\ {"b1", "b2"} \subseteq Range(components["aio"])
    /\ \E i \in 1..Len(recvLog["aio"]) :
          recvLog["aio"][i].m.dst = "b1" /\ recvLog["aio"][i].c = "b1"
    /\ \E i \in 1..Len(dispatched["aio"]) : dispatched["aio"][i].dst = "nobody"
    /\ \E i \in 1..Len(dispatched["gtk"]) : dispatched["gtk"][i].dst = "b1"


C17_WitnessJoined ==
    /\ pc["main"] = "done"
    /\ pc["aio"] = "exited" /\ pc["gtk"] = "exited"
    /\ hubs = <<>>


\* the AIOHub has dispatched a Shutdown to its components
ShutdownDispatched ==
    \E i \in 1..Len(dispatched["aio"]) : dispatched["aio"][i].kind = "shutdown"

\* the threads of the hubs the application was built with have ended
HubThreadsEnded == \A h \in HubTags : pc[h] \in {"unstarted", "exited"}

\* C18: every run() returning once its component has received Shutdown,
\* after a Shutdown has been given to App.send the hubs' threads end, the hubs
\* leave App.hubs and main_loop returns
C18_ShutdownCompletes ==
    halting ~> (pc["main"] = "done" /\ hubs = <<>> /\ HubThreadsEnded)


\* C19: whatever components have a cleanup() that raises, once the AIOHub
\* has dispatched Shutdown its thread ends, the hub leaves App.hubs and
\* main_loop returns
C19_CleanupFailureNoObstacle ==
    ShutdownDispatched ~> (pc["main"] = "done" /\ hubs = <<>> /\ pc["aio"] = "exited")

\* the cleanup() of both components raised in their removal, they are still
\* in the hub's table, and main_loop has returned
C19_Witness ==
    /\ faulty = AioComps
    /\ \A c \in AioComps :
          \E r \in removals : r.c = c /\ r.error = "cleanup" /\ r.after
    /\ ShutdownDispatched
    /\ pc["main"] = "done" /\ hubs = <<>> /\ pc["aio"] = "exited"


\* C20: the step in which KeyboardInterrupt is raised in _next_command
\* leaves the main thread in main_loop, App.hubs as it is, and puts one
\* Shutdown broadcast on the App's queue; main_loop only returns with
\* App.hubs empty; with App.hubs empty the main thread takes no command any
\* more, its next step is the return, and that return comes
C20_InterruptHandled ==
    /\ [][/\ intQuota' < intQuota =>
                /\ pc["main"] = "loop" /\ pc'["main"] = "loop"
                /\ hubs' = hubs
                /\ command_queue' = Append(command_queue, SendCmd(ShutdownMsg(0)))
          /\ (pc["main"] # "done" /\ pc'["main"] = "done") =>
                /\ pc["main"] = "loop"
                /\ hubs = <<>>
          /\ (pc["main"] = "loop" /\ hubs = <<>>) =>
                /\ Len(command_queue') >= Len(command_queue)
                /\ pc'["main"] \in {"loop", "done"}
                /\ appMsg' = appMsg]_vars
    /\ (pc["main"] = "loop" /\ hubs = <<>>) ~> (pc["main"] = "done")

\* the main thread was interrupted, the Shutdown went round, the hubs have
\* been removed and main_loop has returned
C20_Witness ==
    /\ intQuota < MaxInterrupts
    /\ ShutdownDispatched
    /\ made # {}
    /\ hubs = <<>>
    /\ pc["main"] = "done"

\* an App without hubs: main_loop has returned and no hub thread was ever
\* started
C20_WitnessNoHub ==
    /\ pc["main"] = "done"
    /\ \A h \in HubTags : pc[h] = "unstarted"
    /\ command_queue = <<>>

\* ------------------------------------------------------------------------
\* Component.send: what the claims speak of
\* ------------------------------------------------------------------------

\* C21: after Component.send(msg) by component c, the App's queue is the
\* queue of before with one more entry, the message, whose src is c whatever
\* src the caller had set, whose ts is the caller's when it was set and the
\* time of the call when it was None, and whose other fields are untouched
C21_SendStamps ==
    lastSend.n > 0 =>
        /\ Len(appQueue) = Len(lastSend.before) + 1
        /\ SubSeq(appQueue, 1, Len(lastSend.before)) = lastSend.before
        /\ LET out == appQueue[Len(appQueue)]
           IN  /\ out.id = lastSend.msg.id
               /\ out.dst = lastSend.msg.dst
               /\ out.src = lastSend.c
               /\ lastSend.msg.ts # NoTs => out.ts = lastSend.msg.ts
               /\ lastSend.msg.ts = NoTs => out.ts = lastSend.now
               /\ \A i \in 1..Len(lastSend.before) : lastSend.before[i].id # out.id

\* a component sent a message on which the caller had set another component
\* as src and a ts earlier than the time of the call
C21_Witness ==
    /\ lastSend.n > 0
    /\ lastSend.msg.src \notin {None, lastSend.c}
    /\ lastSend.msg.ts # NoTs /\ lastSend.msg.ts < lastSend.now
    /\ appQueue[Len(appQueue)].src = lastSend.c

\* a component sent a message without ts
C21_WitnessNoTs ==
    /\ lastSend.n > 0
    /\ lastSend.msg.ts = NoTs
    /\ lastSend.now > 1

\* ------------------------------------------------------------------------
\* Messages as JSON: what the claims speak of
\* ------------------------------------------------------------------------

\* C22: for a message of any class, the class looked up from as_jsonable's
\* dict is the message's class, instantiating it with the remaining fields
\* gives a message with the same ts, dst, name and kind-specific field, and
\* with src None
C22_JsonRoundTrip ==
    jsPc = "decoded" =>
        /\ jsClass = jsMsg.cls
        /\ jsOut # TypeError
        /\ jsOut.cls = jsMsg.cls
        /\ jsOut.ts = jsMsg.ts
        /\ jsOut.dst = jsMsg.dst
        /\ jsOut.name = jsMsg.name
        /\ jsOut.arg = jsMsg.arg
        /\ jsOut.src = SrcNone

\* ------------------------------------------------------------------------
\* Envelope: what the claims speak of
\* ------------------------------------------------------------------------

\* the last operation was generate on a window of at least one frame
Generated == envCall # <<>> /\ envCall.op = "generate" /\ envCall.n >= 1
\* elapsed frame the generated window starts at
Elapsed == envCall.t - envelope.start_frame

\* C26: once an envelope was released at a frame r >= start_frame, r equal
\* to start_frame included, generate returns None for every window starting
\* at or after r + release_frames; an envelope never released produces the
\* sustain value over every window starting after the attack and decay.
C26_ReleaseEndsOutput ==
    Generated =>
        /\ (envelope.released
              /\ Elapsed >= envelope.release_start + envelope.release_frames)
           => envCall.result = NoneResult
        /\ (~envelope.released /\ Elapsed >= Len(envelope.head))
           => envCall.result = Array(full(envCall.n, SustainValue(envelope)))

HeldLevel(env, e) ==
    IF e < Len(env.head) THEN env.head[e + 1] ELSE SustainValue(env)
\* the sample asked of the envelope at elapsed frame e >= 0
ExpectedSample(env, e) ==
    IF ~env.released \/ e < env.release_start THEN HeldLevel(env, e)
    ELSE IF e < env.release_start + env.release_frames
    THEN linspace(HeldLevel(env, env.release_start), Zero,
                  env.release_frames)[e - env.release_start + 1]
    ELSE Zero
\* the window starts inside the part of the envelope that has output
HasOutput(env, e) ==
    ~env.released \/ e < env.release_start + env.release_frames

\* C28: a window starting at elapsed frame e >= 0 while the envelope still
\* has output holds, frame by frame, head[e] before the sustain, the
\* sustain value after it, tail[e - R] from the release at R on, and 0 once
\* the release curve is over.
C28_SegmentsConcatenated ==
    (Generated /\ Elapsed >= 0 /\ HasOutput(envelope, Elapsed)) =>
        envCall.result =
            Array([i \in 1..envCall.n |-> ExpectedSample(envelope, Elapsed + i - 1)])

\* ------------------------------------------------------------------------
\* Note and Instrument: what the claims speak of
\* ------------------------------------------------------------------------

\* Instrument.generate has been called
HasGenerated == lastGen # <<>> /\ lastGen.frames >= 1
\* the notes the instrument held when it was called
NotesBefore == DOMAIN lastGen.before

\* Note.generate on [frame_time, frame_time + n) and then on the m frames
\* that follow
SplitGenerate(note, frame_time, n, m) ==
    LET first == Note_generate(note, frame_time, n)
        second == Note_generate(first.note, frame_time + n, m)
    IN  [note |-> second.note, added |-> first.added \o second.added]

\* C23: Note.generate on a window leaves the same Note state and mixes the
\* same samples as Note.generate on its first n frames followed by
\* Note.generate on the remaining ones, for every split point n.
C23_SplitInvariant ==
    HasGenerated =>
        \A k \in NotesBefore :
            \A n \in 0..lastGen.frames :
                LET split == SplitGenerate(lastGen.before[k], lastGen.frame_time,
                                           n, lastGen.frames - n)
                IN  /\ split.note = lastGen.calls[k].note
                    /\ split.added = lastGen.calls[k].added

\* the envelope still produces output at frame t, and the level it has there
StillSounds(env, t) ==
    env # NoEnvelope /\ Envelope_generate(env, t, 1).kind = "array"
LevelAt(env, t) == Envelope_generate(env, t, 1).data[1]

\* the events a Note.generate call handed to _process_event, in order
Processed(call) == call.underrun \o call.inside

\* every note_on among msgs, processed in turn from note state n while the
\* envelope still sounds, starts the new envelope at the old one's level
RECURSIVE RestartsContinuous(_, _)
RestartsContinuous(n, msgs) ==
    \/ msgs = <<>>
    \/ LET msg == Head(msgs)
           after == process_event(n, msg)
       IN  /\ (msg.type = "note_on" /\ StillSounds(n.envelope, msg.time))
              => LevelAt(after.envelope, msg.time) = LevelAt(n.envelope, msg.time)
           /\ RestartsContinuous(after, Tail(msgs))

\* C24: a note_on processed at frame t while the note's envelope still
\* produces output makes an envelope whose sample at t equals the old
\* envelope's sample at t, whatever the velocity and the old phase.
C24_RestartContinuous ==
    HasGenerated =>
        \A k \in NotesBefore :
            RestartsContinuous(lastGen.before[k], Processed(lastGen.calls[k]))

\* note n, started and released, has nothing more to give from the window
\* at frame_time on: no event waits and its release curve is exhausted
GoneSilent(n, frame_time, frames) ==
    /\ n.next_events = <<>>
    /\ n.envelope # NoEnvelope
    /\ n.envelope.released
    /\ Envelope_generate(n.envelope, frame_time, frames) = NoneResult

\* C25: a note started by a note_on and released by a note_off, whose
\* release curve is exhausted and which has no pending events, makes
\* Note.generate return False, and that Instrument.generate call removes it
\* from Instrument.notes.
C25_SilentNotePruned ==
    HasGenerated =>
        \A k \in NotesBefore :
            GoneSilent(lastGen.before[k], lastGen.frame_time, lastGen.frames)
            => /\ ~lastGen.calls[k].ret
               /\ k \notin DOMAIN instrument.notes

\* the events of queue q that get_events dequeues for the window ending
\* before frame end: those at its front whose time is earlier
RECURSIVE DequeuedOf(_, _)
DequeuedOf(q, end) ==
    IF q # <<>> /\ Head(q).time < end
    THEN <<Head(q)>> \o DequeuedOf(Tail(q), end)
    ELSE <<>>
IsLate(msg) == msg.time < lastGen.frame_time
IsInWindow(msg) == msg.time >= lastGen.frame_time
Last(q) == q[Len(q)]

\* what _process_event is to do with each of msgs in turn, told from the
\* note's fields: the envelope's start, its release, the bend
RECURSIVE Folded(_, _)
Folded(state, msgs) ==
    IF msgs = <<>> THEN state
    ELSE LET msg == Head(msgs)
         IN  Folded(
                IF msg.type = "note_on"
                THEN [state EXCEPT !.started = msg.time, !.released = -1,
                                   !.velocity = msg.velocity]
                ELSE IF msg.type = "note_off"
                THEN IF state.started = -1 THEN state
                     ELSE [state EXCEPT !.released = msg.time]
                ELSE [state EXCEPT !.bend = msg.pitch],
                Tail(msgs))
\* the same fields, read from a Note
FieldsOf(n) ==
    [started |-> IF n.envelope = NoEnvelope THEN -1 ELSE n.envelope.start_frame,
     released |-> IF n.envelope # NoEnvelope /\ n.envelope.released
                  THEN n.envelope.start_frame + n.envelope.release_start ELSE -1,
     velocity |-> IF n.envelope = NoEnvelope THEN 0
                  ELSE n.envelope.velocity.n * (127 \div n.envelope.velocity.d),
     bend |-> n.last_pitchwheel]

\* C29: of the events Note.get_events dequeues, those earlier than the
\* window start are all handed to _process_event, in order, and are not in
\* the list of in-window events; none is lost, and when the window holds no
\* event of its own the note shows their effect: the envelope started by
\* the note_on, released by the note_off, the bend set by the pitchwheel.
C29_UnderrunApplied ==
    HasGenerated =>
        \A k \in NotesBefore :
            LET before == lastGen.before[k]
                call == lastGen.calls[k]
                dequeued == DequeuedOf(before.next_events,
                                       lastGen.frame_time + lastGen.frames)
            IN  /\ call.underrun = SelectSeq(dequeued, IsLate)
                /\ call.inside = SelectSeq(dequeued, IsInWindow)
                /\ dequeued \o call.note.next_events = before.next_events
                /\ call.inside = <<>>
                   => FieldsOf(call.note) = Folded(FieldsOf(before), call.underrun)

\* a late note_on, a late note_off and a late pitchwheel have been applied
C29_Witness ==
    /\ HasGenerated
    /\ \E k \in NotesBefore :
        /\ lastGen.calls[k].inside = <<>>
        /\ lastGen.calls[k].underrun # <<>>
        /\ Last(lastGen.calls[k].underrun).type = "note_on"
C29_WitnessOff ==
    /\ HasGenerated
    /\ \E k \in NotesBefore :
        /\ lastGen.calls[k].inside = <<>>
        /\ Len(lastGen.calls[k].underrun) = 2
        /\ lastGen.calls[k].underrun[1].type = "note_on"
        /\ lastGen.calls[k].underrun[2].type = "note_off"
C29_WitnessBend ==
    /\ HasGenerated
    /\ \E k \in NotesBefore :
        /\ lastGen.calls[k].underrun # <<>>
        /\ Last(lastGen.calls[k].underrun).type = "pitchwheel"

\* ------------------------------------------------------------------------
\* MidiPlayer threads: what the claims speak of
\* ------------------------------------------------------------------------

\* the realtime thread is inside a blocking acquire of a lock that the
\* thread calling play holds
RealtimeWaits ==
    /\ rtPc # <<>>
    /\ rtPc["jack"] = "acquire"
    /\ events_mutex = "player"

\* C30: the realtime callback never waits for a mutex held by a
\* non-realtime thread.
C30_RealtimeNeverWaits == ~RealtimeWaits

\* position the last added event got in the queue
AddedPos == PosOf(events, lastOp.id)
\* position, after the add, of the event that was at position i before it
PosAfterAdd(i) == PosOf(events, lastOp.before[i].id)

\* C35 as stated: add_event places the new event after every queued event
\* of strictly smaller absolute delay and before every queued event of
\* equal absolute delay.
C35_InsertedBeforeEqual ==
    lastOp.op = "add" =>
        \A i \in 1..Len(lastOp.before) :
            /\ AbsDelay(lastOp.before, i) < lastOp.n => PosAfterAdd(i) < AddedPos
            /\ AbsDelay(lastOp.before, i) = lastOp.n => PosAfterAdd(i) > AddedPos

\* C35 amended: add_event places the new event after every queued event of
\* smaller or equal absolute delay and before the first queued event of
\* strictly larger absolute delay.
C35_InsertedAfterEqual ==
    lastOp.op = "add" =>
        \A i \in 1..Len(lastOp.before) :
            /\ AbsDelay(lastOp.before, i) <= lastOp.n => PosAfterAdd(i) < AddedPos
            /\ AbsDelay(lastOp.before, i) > lastOp.n => PosAfterAdd(i) > AddedPos

\* an event was added to a queue holding an event of the same absolute
\* delay and one of a larger
C35_Witness ==
    /\ lastOp.op = "add"
    /\ \E i, j \in 1..Len(lastOp.before) :
          /\ AbsDelay(lastOp.before, i) = lastOp.n
          /\ AbsDelay(lastOp.before, j) > lastOp.n

\* C37: every frame_delay stored in the queue is >= 0, and clock_tick(0)
\* returns no event and leaves the queue as it was, also when the head
\* event has delay 0.
C37_DelaysNonNegative ==
    /\ \A i \in 1..Len(events) : events[i].frame_delay >= 0
    /\ (lastOp.op = "tick" /\ lastOp.n = 0)
       => (lastOp.res = <<>> /\ events = lastOp.before)

\* clock_tick(0) was called on a queue whose head event has delay 0
C37_Witness ==
    /\ lastOp.op = "tick"
    /\ lastOp.n = 0
    /\ lastOp.before # <<>>
    /\ lastOp.before[1].frame_delay = 0
\* an add in front of a later event, and a tick that left an event queued,
\* have both rewritten a stored frame_delay
C37_WitnessRewritten ==
    /\ lastOp.op = "tick"
    /\ lastOp.n > 0
    /\ events # <<>>
    /\ events[1].frame_delay < lastOp.before[Len(lastOp.before) - Len(events) + 1].frame_delay

\* the first note_on among msgs, and how many messages come before it
RECURSIVE FirstNoteOn(_, _)
FirstNoteOn(msgs, i) ==
    IF i > Len(msgs) THEN 0
    ELSE IF msgs[i].type = "note_on" THEN i ELSE FirstNoteOn(msgs, i + 1)
HasNoteOn(msgs) == FirstNoteOn(msgs, 1) # 0

\* C36: Note.generate on the window [frame_time, frame_time + n) dequeues
\* exactly the pending events with time < frame_time + n and leaves the
\* later ones queued in their order; a note with no envelope adds nothing
\* before the offset (time - frame_time) of the first note_on of the window,
\* and from that offset up to the next event of the window it adds the
\* levels of an envelope started at that note_on, at zero, with its velocity.
C36_WindowSplitAtEvents ==
    HasGenerated =>
        \A k \in NotesBefore :
            LET before == lastGen.before[k]
                call == lastGen.calls[k]
                end == lastGen.frame_time + lastGen.frames
                q == before.next_events
                taken == Len(q) - Len(call.note.next_events)
                on == FirstNoteOn(call.inside, 1)
            IN  /\ taken >= 0
                /\ call.note.next_events = SubSeq(q, taken + 1, Len(q))
                /\ \A i \in 1..Len(q) : (i <= taken) <=> (q[i].time < end)
                /\ Len(call.added) = lastGen.frames
                /\ (before.envelope = NoEnvelope /\ ~HasNoteOn(call.underrun)
                    /\ on # 0)
                   => LET msg == call.inside[on]
                          offset == msg.time - lastGen.frame_time
                          until == IF on < Len(call.inside)
                                   THEN call.inside[on + 1].time - lastGen.frame_time
                                   ELSE lastGen.frames
                          fresh == Envelope_init(before.envelope_shape, msg.time,
                                                 Zero, Velocity(msg.velocity))
                      IN  /\ \A i \in 1..offset : call.added[i] = Silent
                          /\ \A i \in (offset + 1)..until :
                                call.added[i].level
                                    = ExpectedSample(fresh, i - offset - 1)

\* a silent note got a note_on inside the window, after its start: nothing
\* was added before the offset and sound from the offset on, and a later
\* event stayed queued
C36_Witness ==
    /\ HasGenerated
    /\ \E k \in NotesBefore :
        LET before == lastGen.before[k]
            call == lastGen.calls[k]
        IN  /\ before.envelope = NoEnvelope
            /\ call.underrun = <<>>
            /\ call.inside # <<>>
            /\ call.inside[1].type = "note_on"
            /\ call.inside[1].time > lastGen.frame_time
            /\ call.added[call.inside[1].time - lastGen.frame_time + 1] # Silent
            /\ call.note.next_events # <<>>
\* the note_on fell in a later window: the window before it got nothing
C36_WitnessLater ==
    /\ HasGenerated
    /\ \E k \in NotesBefore :
        /\ lastGen.before[k].envelope = NoEnvelope
        /\ lastGen.calls[k].inside = <<>>
        /\ lastGen.calls[k].underrun = <<>>
        /\ lastGen.calls[k].note.next_events # <<>>
        /\ lastGen.calls[k].note.next_events[1].type = "note_on"
        /\ \A i \in 1..lastGen.frames : lastGen.calls[k].added[i] = Silent

\* ------------------------------------------------------------------------
\* MidiPlayer: play against on_process
\* ------------------------------------------------------------------------

\* ids of the events in a sequence of events
RtIds(evs) == {evs[i].id : i \in 1..Len(evs)}
\* both threads are inside their with block at once
BothInside ==
    /\ rtPc # <<>>
    /\ rtPc["player"] = "locked"
    /\ rtPc["jack"] = "locked"
\* a write happened in the cycle whose window holds the event's due frame,
\* at the event's offset in that window
WrittenOnTime(w) ==
    /\ w.start <= dueAt[w.id]
    /\ dueAt[w.id] < w.start + w.frames
    /\ w.offset = dueAt[w.id] - w.start
\* how many writes to the port carry the event
WritesOf(id) == Cardinality({i \in 1..Len(midiPort) : midiPort[i].id = id})
\* an enqueued event is in exactly one place: still queued and not yet
\* due, taken by the running cycle whose window holds it, or written once
Accounted(id) ==
    LET queued == id \in RtIds(events)
        taken  == id \in RtIds(rtCall.events)
    IN  /\ queued => /\ ~taken
                     /\ WritesOf(id) = 0
                     /\ dueAt[id] >= rtClock
        /\ taken => /\ WritesOf(id) = 0
                    /\ dueAt[id] >= rtClock - rtCall.frames
                    /\ dueAt[id] < rtClock
        /\ (~queued /\ ~taken) => WritesOf(id) = 1

\* C38: play and on_process are never inside the queue together, and each
\* enqueued event is written to the port exactly once, in the cycle whose
\* frame window holds its due frame, at its offset in that cycle.
C38_PlayedOnceOnTime ==
    /\ ~BothInside
    /\ \A id \in DOMAIN dueAt : Accounted(id)
    /\ \A i \in 1..Len(midiPort) : WrittenOnTime(midiPort[i])

\* two events written in different cycles, one of them inside its window
C38_Witness ==
    \E i, j \in 1..Len(midiPort) :
        /\ midiPort[i].cycle < midiPort[j].cycle
        /\ midiPort[j].offset > 0
\* play asked for the lock while the process callback held it
C38_WitnessContended ==
    /\ rtPc # <<>>
    /\ rtPc["player"] = "acquire"
    /\ events_mutex = "jack"
\* an event enqueued while the callback was writing the cycle's events
C38_WitnessDuringWrite ==
    /\ rtPc # <<>>
    /\ rtPc["jack"] = "write"
    /\ rtCall.events # <<>>
    /\ \E id \in RtIds(events) : dueAt[id] - rtClock = MaxDelay
    /\ midiPort # <<>>

\* ------------------------------------------------------------------------
\* Hub: removal and addition against a dispatch pass
\* ------------------------------------------------------------------------

\* a receive call made on a component after its cleanup and its deletion
\* from the table
ReceivedAfterRemoval == \E i \in 1..Len(passLog) : passLog[i].gone

\* C39: once a component has been cleaned up and deleted from the table its
\* receive is never invoked again by the hub, not even by a pass that had
\* started before the removal; a component added during a pass does not
\* get the message of that pass.
C39_NoReceiveAfterRemoval ==
    /\ ~ReceivedAfterRemoval
    /\ \A i \in 1..Len(passLog) : ~passLog[i].late

\* ------------------------------------------------------------------------
\* AIOHub: leaving the event loop
\* ------------------------------------------------------------------------

\* aio_main is past "while self.tasks": self.loop = None has been executed
AioLeft == pc["aio"] \in {"closing", "ending", "exited"}
\* aio_main is past the drain of pre_loop_queue
AioDrained == pc["aio"] \in {"wait", "closing", "ending", "exited"}
\* the task of component c has finished and its on_done has not run yet
OnDonePending(c) ==
    \E i \in 1..Len(loop_ready) :
        loop_ready[i].f = "on_done" /\ loop_ready[i].c = c
\* component c is in the AIOHub's table, has no running task, and none of
\* its tasks has just finished
RegisteredWithoutTask(c) ==
    /\ c \in Range(components["aio"])
    /\ ~HasTask(tasks, c)
    /\ ~OnDonePending(c)
\* the hub has left its loop with no running task, and every component
\* whose task finished was cleaned up and is out of the table
LeftClean ==
    /\ tasks = {}
    /\ \A c \in AioComps :
          c \in Range(cleanupLog) => c \notin Range(components["aio"])
    /\ \A r \in removals : r.h = "aio" => r.during /\ ~r.after

\* C40: the AIOHub leaves its loop and queues its removal only with no
\* running task left, with every component whose task finished cleaned up
\* and then deleted from the table, and a component handed to the hub is
\* never left registered without a task having been started for it.
C40_LeavesWithNothingRegistered ==
    /\ AioLeft => LeftClean
    /\ AioDrained => \A c \in AioComps : ~RegisteredWithoutTask(c)

\* ------------------------------------------------------------------------
\* SimpleActiveComponent: set_active
\* ------------------------------------------------------------------------

\* the state after the i-th set_active body, and the messages sent by then
ActiveAfter(i) == IF i = Len(setLog) THEN active ELSE setLog[i + 1].before
SentAfter(i) == IF i = Len(setLog) THEN stateMsgs ELSE setLog[i + 1].sentBefore
\* the set_active bodies that changed the state
StateChanges == {i \in 1..Len(setLog) : ActiveAfter(i) # setLog[i].before}
\* the i-th body did what set_active(x) is to do
SetActiveDone(i) ==
    IF setLog[i].x = setLog[i].before
    THEN /\ ActiveAfter(i) = setLog[i].before
         /\ SentAfter(i) = setLog[i].sentBefore
    ELSE /\ ActiveAfter(i) = setLog[i].x
         /\ SentAfter(i) = Append(setLog[i].sentBefore,
                                  ComponentActiveStateChanged(setLog[i].x))

\* C34: set_active(x) with x the current state changes nothing and sends
\* nothing, otherwise the state becomes x and one
\* ComponentActiveStateChanged(value=x) is sent; the notifications are as
\* many as the state changes and the last one carries the current state.
C34_SetActiveIdempotent ==
    /\ \A i \in 1..Len(setLog) : SetActiveDone(i)
    /\ Len(stateMsgs) = Cardinality(StateChanges)
    /\ stateMsgs # <<>> => stateMsgs[Len(stateMsgs)].value = active

\* a call that changed the state followed by the same call again, then a
\* call that changed it back
C34_Witness ==
    \E i \in 1..Len(setLog) :
        /\ i + 2 <= Len(setLog)
        /\ setLog[i].x # setLog[i].before
        /\ setLog[i + 1].x = setLog[i].x
        /\ setLog[i + 2].x # setLog[i].x
        /\ Len(stateMsgs) >= 2
\* the same, with a marshalled call still waiting
C34_WitnessMarshalled ==
    /\ setQueue # <<>>
    /\ \E i \in 1..Len(setLog) : setLog[i].x = setLog[i].before
    /\ stateMsgs # <<>>

\* ------------------------------------------------------------------------
\* TopComponent / BottomComponent: corrupt lines, echoes
\* ------------------------------------------------------------------------

\* the lines read so far that are well formed, and those that are corrupt
GoodSeen == SelectSeq(brSeen, IsGood)
CorruptSeen == SelectSeq(brSeen, LAMBDA line : ~IsGood(line) /\ line # EofLine)

\* C31: a corrupt line from the peer does not stop the bridge: it is logged
\* and dropped, no Shutdown is injected, and the well-formed lines are still
\* decoded and sent on the bus; for a line without type tag and for any
\* other malformed line.
C31_CorruptLineDropped ==
    EofLine \notin Range(brSeen) =>
        /\ brReader # "ended"
        /\ brLogged = CorruptSeen
        /\ Len(busSent) = Len(GoodSeen)

\* the written line carries a message that came from the peer
FromPeer(line) ==
    /\ "power" \in DOMAIN line.d
    /\ line.d["power"] \in 1..MaxLines
\* the i-th message sent on the bus is the i-th well-formed line, with the
\* bridge as its src
SentOnce(i) ==
    /\ busSent[i].src = Bridge
    /\ busSent[i].cls = GoodSeen[i].d["__class__"]
    /\ busSent[i].arg = GoodSeen[i].d["power"]

\* C33: a message decoded from the socket is sent on the bus exactly once,
\* with the bridge as src, and is never written back to the peer when the
\* bus delivers it to the bridge.
C33_NoEcho ==
    /\ Len(busSent) = Len(GoodSeen)
    /\ \A i \in 1..Len(busSent) : SentOnce(i)
    /\ \A i \in 1..Len(sockOut) : ~FromPeer(sockOut[i])

\* a message from the peer came back from the bus and was taken by run(),
\* which has also written a message of another component to the peer
C33_Witness ==
    /\ busIdx >= 1
    /\ brQueue = <<>>
    /\ brRun = "running"
    /\ sockOut # <<>>
\* both messages of the peer came back and were taken
C33_WitnessBoth ==
    /\ busIdx = MaxLines
    /\ brQueue = <<>>
    /\ brRun = "running"

\* ------------------------------------------------------------------------
\* TopComponent: Shutdown with a running child
\* ------------------------------------------------------------------------

\* run() is inside _terminate_process
Terminating == topPc \in {"killer", "wait"}
\* the n-th signal is terminate for the first KillAfter attempts, then kill
SignalsInOrder ==
    \A n \in 1..Len(signals) :
        signals[n] = IF n <= KillAfter THEN "terminate" ELSE "kill"
\* run() has returned only after the child's exit, with proc cleared; the
\* killer goes on while the child is not known to have exited
StopsOnlyAfterExit ==
    /\ topPc = "returned" => child = "exited" /\ proc = "None"
    /\ topPc = "wait" => child = "exited"
    /\ SignalsInOrder

\* C32: after Shutdown with a running child the child is signalled,
\* terminate for the first 10 attempts and kill from then on, until it has
\* exited; run() never returns while the child is alive, and returns once
\* it has exited.
C32_ChildStoppedBeforeReturn ==
    /\ []StopsOnlyAfterExit
    /\ Terminating ~> topPc = "returned"

\* run() has returned after a child that ignored SIGTERM was killed
C32_Witness ==
    /\ topPc = "returned"
    /\ stubborn
    /\ Len(signals) > KillAfter
    /\ child = "exited"
\* run() has returned after one terminate
C32_WitnessTerminate ==
    /\ topPc = "returned"
    /\ signals = <<"terminate">>

====
